---- MODULE Spec2Model ----
(***************************************************************************)
(* Model of the reconciliation / canonicalization core of the SIIF         *)
(* financial dashboard (src/new_app.py) and of the derived-metrics         *)
(* calculators of its two sources (src/model.py, src/financial_sources.py).*)
(*                                                                         *)
(* Python values are records tagged by the field t:                        *)
(*   [t |-> "none"]                       None                             *)
(*   [t |-> "num", n |-> p, d |-> q]      the finite number p/q (q > 0,    *)
(*                                        lowest terms), int or float      *)
(*   [t |-> "nan"], [t |-> "inf", neg]    float NaN and +/- infinity       *)
(*   [t |-> "bigint"]                     an int beyond the range of a     *)
(*                                        float (such as 10**400)          *)
(*   [t |-> "bool", b |-> ...]            True / False                     *)
(*   [t |-> "str", s |-> "..."]           a string                         *)
(*   [t |-> "list", n |-> len]            a list of len elements           *)
(*   [t |-> "dict", e |-> <<entry...>>]   a dict: entries [k, v] in        *)
(*                                        insertion order, keys distinct   *)
(*   [t |-> "raise", exc |-> "..."]       the call raised the exception    *)
(***************************************************************************)
EXTENDS Integers, Sequences, FiniteSets, TLC

\* op: the operation called last; args: the arguments it was called with;
\* ret: what it returned (or the exception it raised); pc: "call" before the
\* operation has run, "done" after ("twice" after a second call on the report
\* the first one returned); after: the argument objects as the caller
\* holds them once the operation has run (an operation that writes into an
\* argument changes it here); shared: the parts of the result that are
\* objects of the arguments rather than new objects ("report" is the result
\* itself, the other names are its top-level keys).
VARIABLES op, args, ret, pc, after, shared, frame, log

vars == <<op, args, ret, pc, after, shared, frame, log>>

\* ------------------------------------------------------------------ bounds
\* Largest integer used as a raw numeric field value in generated reports.
MaxInt == 2
\* Largest number of entries of a generated raw income_statement mapping.
MaxEntries == 2

\* Largest number of pages of a generated page list.
MaxPages == 2

\* --------------------------------------------------- constants of the source
\* units.scale of every Yahoo report
YahooScale == 1000000

\* default max_chars of chunk_text
CHUNK_MAX_CHARS == 40000

\* retries of one chunk after an invalid reply
MAX_JSON_RETRIES == 2

\* ------------------------------------------------------------ value kinds
None == [t |-> "none"]
NaN == [t |-> "nan"]
BigInt == [t |-> "bigint"]
Inf(neg) == [t |-> "inf", neg |-> neg]
Bool(b) == [t |-> "bool", b |-> b]
Str(s) == [t |-> "str", s |-> s]
List(n) == [t |-> "list", n |-> n]
Dict(e) == [t |-> "dict", e |-> e]
Raise(exc) == [t |-> "raise", exc |-> exc]
Entry(k, v) == [k |-> k, v |-> v]

Abs(i) == IF i < 0 THEN 0 - i ELSE i

RECURSIVE Gcd(_, _)
Gcd(a, b) == IF b = 0 THEN a ELSE Gcd(b, a % b)

\* The finite number p/q, q # 0, in lowest terms with a positive denominator.
Num(p, q) ==
    LET g == Gcd(Abs(p), Abs(q))
        s == IF q < 0 THEN 0 - 1 ELSE 1
    IN [t |-> "num", n |-> (s * p) \div g, d |-> (s * q) \div g]

Int2Num(i) == Num(i, 1)

IsDict(x) == x.t = "dict"
IsRaise(x) == x.t = "raise"

\* Python truthiness (the `or` operator, `if not x`).
Truthy(x) ==
    CASE x.t = "none" -> FALSE
      [] x.t = "num" -> x.n # 0
      [] x.t = "bool" -> x.b
      [] x.t = "str" -> x.s # ""
      [] x.t = "list" -> x.n > 0
      [] x.t = "dict" -> Len(x.e) > 0
      [] OTHER -> TRUE

\* `a or b`
Or(a, b) == IF Truthy(a) THEN a ELSE b

EmptyDict == Dict(<<>>)

\* ------------------------------------------------------------- dict access
Keys(d) == {d.e[i].k : i \in 1..Len(d.e)}
Has(d, k) == k \in Keys(d)
Index(d, k) == CHOOSE i \in 1..Len(d.e) : d.e[i].k = k

\* d.get(k, default)
GetDefault(d, k, default) == IF Has(d, k) THEN d.e[Index(d, k)].v ELSE default

\* d.get(k)
Get(d, k) == GetDefault(d, k, None)

\* d[k] = v : replaces the value in place, or appends a new entry.
Put(d, k, v) ==
    IF Has(d, k)
    THEN Dict([d.e EXCEPT ![Index(d, k)] = Entry(k, v)])
    ELSE Dict(Append(d.e, Entry(k, v)))

\* {**a, **b}
RECURSIVE Update(_, _)
Update(a, b) ==
    IF Len(b.e) = 0 THEN a
    ELSE Update(Put(a, b.e[1].k, b.e[1].v), Dict(Tail(b.e)))

\* ----------------------------------------------------------------- strings
Char(s, i) == SubSeq(s, i, i)
Chars(s) == {Char(s, i) : i \in 1..Len(s)}
Rest(s) == SubSeq(s, 2, Len(s))
Last(s) == Char(s, Len(s))
ButLast(s) == SubSeq(s, 1, Len(s) - 1)

UpperAlpha == "ABCDEFGHIJKLMNOPQRSTUVWXYZ"
LowerAlpha == "abcdefghijklmnopqrstuvwxyz"
Digits == "0123456789"
\* str.strip() with no argument removes whitespace.
Whitespace == {" ", "\t"}
\* Stands for the em dash U+2014, which has no ASCII spelling.
EmDash == "^"

LowerChar(c) ==
    IF c \in Chars(UpperAlpha)
    THEN Char(LowerAlpha, CHOOSE i \in 1..Len(UpperAlpha) : Char(UpperAlpha, i) = c)
    ELSE c

\* str.lower()
RECURSIVE Lower(_)
Lower(s) == IF s = "" THEN "" ELSE LowerChar(Char(s, 1)) \o Lower(Rest(s))

UpperChar(c) ==
    IF c \in Chars(LowerAlpha)
    THEN Char(UpperAlpha, CHOOSE i \in 1..Len(LowerAlpha) : Char(LowerAlpha, i) = c)
    ELSE c

\* str.upper()
RECURSIVE Upper(_)
Upper(s) == IF s = "" THEN "" ELSE UpperChar(Char(s, 1)) \o Upper(Rest(s))

RECURSIVE LStrip(_)
LStrip(s) == IF s # "" /\ Char(s, 1) \in Whitespace THEN LStrip(Rest(s)) ELSE s

RECURSIVE RStrip(_)
RStrip(s) == IF s # "" /\ Last(s) \in Whitespace THEN RStrip(ButLast(s)) ELSE s

\* str.strip()
Strip(s) == RStrip(LStrip(s))

\* str.replace(old, new) for a one-character old.
RECURSIVE Replace(_, _, _)
Replace(s, old, new) ==
    IF s = "" THEN ""
    ELSE (IF Char(s, 1) = old THEN new ELSE Char(s, 1)) \o Replace(Rest(s), old, new)

\* str.endswith("%")
EndsWithPercent(s) == s # "" /\ Last(s) = "%"

\* ------------------------------------------------------------ float(string)
DigitVal(c) == CHOOSE i \in 0..9 : Char(Digits, i + 1) = c

RECURSIVE Pow10(_)
Pow10(k) == IF k = 0 THEN 1 ELSE 10 * Pow10(k - 1)

\* The integer written by the digits of s, its "." skipped.
RECURSIVE DigitsValue(_, _)
DigitsValue(s, acc) ==
    IF s = "" THEN acc
    ELSE IF Char(s, 1) = "." THEN DigitsValue(Rest(s), acc)
    ELSE DigitsValue(Rest(s), 10 * acc + DigitVal(Char(s, 1)))

\* Number of characters after the ".", 0 when there is none.
FracLen(s) ==
    IF "." \in Chars(s)
    THEN Len(s) - (CHOOSE i \in 1..Len(s) : Char(s, i) = ".")
    ELSE 0

IsDecimal(s) ==
    /\ Chars(s) \subseteq (Chars(Digits) \cup {"."})
    /\ Cardinality({i \in 1..Len(s) : Char(s, i) = "."}) <= 1
    /\ Chars(s) \cap Chars(Digits) # {}

\* float(s) for a string s: surrounding whitespace is ignored, then an
\* optional sign and either inf / infinity / nan in any case or a decimal
\* numeral.  Anything else is a ValueError.  (Exponent and digit-group
\* underscore spellings are outside the strings the model feeds it.)
ParseFloat(s) ==
    LET s1 == Strip(s)
        signed == s1 # "" /\ Char(s1, 1) \in {"+", "-"}
        neg == s1 # "" /\ Char(s1, 1) = "-"
        body == IF signed THEN Rest(s1) ELSE s1
    IN IF Lower(body) \in {"inf", "infinity"} THEN Inf(neg)
       ELSE IF Lower(body) = "nan" THEN NaN
       ELSE IF IsDecimal(body)
            THEN Num((IF neg THEN 0 - 1 ELSE 1) * DigitsValue(body, 0),
                     Pow10(FracLen(body)))
       ELSE Raise("ValueError")

\* x / 100.0 on a float
DivideBy100(x) == IF x.t = "num" THEN Num(x.n, x.d * 100) ELSE x

\* str(x)
PyStr(x) ==
    CASE x.t = "str" -> x.s
      [] x.t = "list" -> IF x.n = 0 THEN "[]" ELSE "[...]"
      [] x.t = "dict" -> IF Len(x.e) = 0 THEN "{}" ELSE "{...}"
      [] OTHER -> "<object>"

\* --------------------------------------------------------- value coercion
NullTokens == {"nan", "none", "null", EmDash, "-"}

\* float(x): an int too large for a float is an OverflowError, a string is
\* parsed, None and containers are a TypeError.
PyFloat(x) ==
    CASE x.t = "bigint" -> Raise("OverflowError")
      [] x.t = "bool" -> Int2Num(IF x.b THEN 1 ELSE 0)
      [] x.t = "str" -> ParseFloat(x.s)
      [] x.t \in {"none", "list", "dict"} -> Raise("TypeError")
      [] OTHER -> x

\* Mutant: the commas are removed before the test for a trailing %.
to_num_CommasFirst(x) ==
    IF x.t = "none" THEN None
    ELSE IF x.t \in {"num", "nan", "inf", "bool", "bigint"}
    THEN (IF x.t \in {"nan", "inf"} THEN None ELSE PyFloat(x))
    ELSE LET s == Replace(Strip(PyStr(x)), ",", "") IN
         IF s = "" \/ Lower(s) \in NullTokens THEN None
         ELSE IF EndsWithPercent(s)
         THEN (LET v == ParseFloat(Strip(ButLast(s)))
               IN IF IsRaise(v) THEN None ELSE DivideBy100(v))
         ELSE LET v == ParseFloat(s)
              IN IF IsRaise(v) \/ v.t \in {"nan", "inf"} THEN None ELSE v

to_num(x) ==
    IF x.t = "none" THEN None
    ELSE IF x.t \in {"num", "nan", "inf", "bool", "bigint"}
    THEN (IF x.t \in {"nan", "inf"} THEN None ELSE PyFloat(x))
    ELSE LET s == Strip(PyStr(x)) IN
         IF s = "" \/ Lower(s) \in NullTokens THEN None
         ELSE IF EndsWithPercent(s)
         THEN (LET v == ParseFloat(Strip(ButLast(s)))
               IN IF IsRaise(v) THEN None ELSE DivideBy100(v))
         ELSE LET v == ParseFloat(Replace(s, ",", ""))
              IN IF IsRaise(v) \/ v.t \in {"nan", "inf"} THEN None ELSE v

\* ------------------------------------------------ canonical schema, synonyms
Sections == <<"income_statement", "balance_sheet", "cash_flow", "derived">>

CANON ==
    [section \in {Sections[i] : i \in 1..Len(Sections)} |->
        CASE section = "income_statement" ->
               <<"revenue", "gross_profit", "operating_income", "net_income",
                 "eps_basic", "eps_diluted">>
          [] section = "balance_sheet" ->
               <<"total_assets", "total_liabilities", "total_equity",
                 "shares_outstanding">>
          [] section = "cash_flow" ->
               <<"operating_cf", "investing_cf", "financing_cf", "free_cf">>
          [] section = "derived" ->
               <<"profit_margin", "gross_margin", "operating_margin",
                 "free_cash_flow_margin", "return_on_equity", "asset_turnover",
                 "debt_to_equity", "pe_ratio_basic", "pe_ratio_diluted">>]

SYNONYMS ==
       "total_revenue" :> "revenue"
    @@ "sales" :> "revenue"
    @@ "turnover" :> "revenue"
    @@ "grossprofit" :> "gross_profit"
    @@ "operatingincome" :> "operating_income"
    @@ "ebit" :> "operating_income"
    @@ "netincome" :> "net_income"
    @@ "net_profit" :> "net_income"
    @@ "eps" :> "eps_basic"
    @@ "basic_eps" :> "eps_basic"
    @@ "diluted_eps" :> "eps_diluted"
    @@ "total_assets" :> "total_assets"
    @@ "assets_total" :> "total_assets"
    @@ "total_liab" :> "total_liilities"
    @@ "total_liabilities" :> "total_liabilities"
    @@ "total_liabilities_and_equity" :> "total_assets"
    @@ "equity" :> "total_equity"
    @@ "shareholders_equity" :> "total_equity"
    @@ "shares" :> "shares_outstanding"
    @@ "shares_out" :> "shares_outstanding"
    @@ "operating_cash_flow" :> "operating_cf"
    @@ "cash_from_operations" :> "operating_cf"
    @@ "investing_cash_flow" :> "investing_cf"
    @@ "financing_cash_flow" :> "financing_cf"
    @@ "free_cash_flow" :> "free_cf"
    @@ "fcf" :> "free_cf"
    @@ "net_margin" :> "profit_margin"
    @@ "roe" :> "return_on_equity"
    @@ "d_to_e" :> "debt_to_equity"
    @@ "pe" :> "pe_ratio_basic"

\* SYNONYMS.get(k0, k0)
SynonymOf(k0) == IF k0 \in DOMAIN SYNONYMS THEN SYNONYMS[k0] ELSE k0

\* Mutant: the .replace(" ", "_") is lost.
canon_key_NoUnderscore(k) ==
    LET k0 == Lower(Strip(k))
        k1 == IF k0 = "total_liilities" THEN "total_liabilities" ELSE k0
    IN SynonymOf(k1)

canon_key(k) ==
    LET k0 == Replace(Lower(Strip(k)), " ", "_")
        k1 == IF k0 = "total_liilities" THEN "total_liabilities" ELSE k0
    IN SynonymOf(k1)

\* ----------------------------------------------------- report canonicalizer
SectionSet == {Sections[i] : i \in 1..Len(Sections)}

\* Mutant: a later key does not replace a non-null value already stored.
RECURSIVE NormFrom_NonNullKept(_, _)
NormFrom_NonNullKept(entries, norm) ==
    IF Len(entries) = 0 THEN norm
    ELSE LET k == canon_key(entries[1].k)
         IN NormFrom_NonNullKept(Tail(entries),
                IF Has(norm, k) /\ Get(norm, k) # None THEN norm
                ELSE Put(norm, k, to_num(entries[1].v)))

\* norm = {}; for k, v in sec.items(): norm[_canon_key(k)] = _to_num(v)
RECURSIVE NormFrom(_, _)
NormFrom(entries, norm) ==
    IF Len(entries) = 0 THEN norm
    ELSE NormFrom(Tail(entries),
                  Put(norm, canon_key(entries[1].k), to_num(entries[1].v)))

Norm(sec) == NormFrom(sec.e, EmptyDict)

\* Mutant: {k: v for k, v in norm.items() if k in CANON[section]}
CanonSection_OnlyPresentKeys(section, norm) ==
    Dict(SelectSeq(norm.e,
                   LAMBDA en : \E j \in 1..Len(CANON[section]) : CANON[section][j] = en.k))

\* {k: norm.get(k) for k in CANON[section]}
CanonSection(section, norm) ==
    Dict([j \in 1..Len(CANON[section]) |->
            Entry(CANON[section][j], Get(norm, CANON[section][j]))])

\* sec = (report.get(section) or {})
RawSection(report, section) == Or(Get(report, section), EmptyDict)

\* What `if not isinstance(report, dict)` returns.
NonDictResult == EmptyDict

\* The first exception of a sequence of results, None when there is none.
FirstRaise(results) ==
    IF \E i \in 1..Len(results) : IsRaise(results[i])
    THEN results[CHOOSE i \in 1..Len(results) :
                   IsRaise(results[i]) /\ \A j \in 1..(i - 1) : ~IsRaise(results[j])]
    ELSE None

\* One pass of the loop over the sections: the section of the output, or the
\* exception the pass raises (sec.items() on a section that is no mapping,
\* or the first _to_num call that raises).
PassOutcome(section, sec, failure) ==
    IF failure # None THEN failure ELSE CanonSection(section, Norm(sec))

SectionPass(section, sec) ==
    IF ~IsDict(sec) THEN Raise("AttributeError")
    ELSE PassOutcome(section, sec,
                     FirstRaise([i \in 1..Len(sec.e) |-> to_num(sec.e[i].v)]))

\* out, once the loop has run over the four passes, or the first exception.
CanonOut(report, passes) ==
    IF FirstRaise(passes) # None THEN FirstRaise(passes)
    ELSE Dict(<<Entry("metadata", Or(Get(report, "metadata"), EmptyDict)),
                Entry("units", Or(Get(report, "units"), EmptyDict))>>
              \o [i \in 1..Len(Sections) |-> Entry(Sections[i], passes[i])])

canonicalize_report(report) ==
    IF ~IsDict(report) THEN NonDictResult
    ELSE CanonOut(report,
                  [i \in 1..Len(Sections) |->
                     SectionPass(Sections[i], RawSection(report, Sections[i]))])

\* Mutant: a section that already holds exactly its canonical keys is handed
\* back as it is.
CanonShared_SectionsKept(report, out) ==
    IF ~IsDict(report) \/ ~IsDict(out) THEN {}
    ELSE {k \in {"metadata", "units"} : Truthy(Get(report, k))}
         \cup {k \in SectionSet : Get(report, k) = Get(out, k)}

\* The parts of out that are objects of the report passed in:
\* `report.get("metadata") or {}` and `report.get("units") or {}` hand the
\* caller's own object on when it is truthy; every section is a new dict.
CanonShared(report, out) ==
    IF ~IsDict(report) \/ ~IsDict(out) THEN {}
    ELSE {k \in {"metadata", "units"} : Truthy(Get(report, k))}

\* ------------------------------------------------------- completeness check
\* Mutant: `if any(not v for v in block.values())`
BlockMissing_FalsyCounts(block) ==
    IF ~Truthy(block) THEN Bool(TRUE)
    ELSE IF ~IsDict(block) THEN Raise("AttributeError")
    ELSE Bool(\E i \in 1..Len(block.e) : ~Truthy(block.e[i].v))

\* One pass of the loop of has_missing_fields over block = report.get(sec)
\* or {}: True when the pass returns True, False when the loop goes on, or
\* the exception of block.values() on a block that is no mapping.
BlockMissing(block) ==
    IF ~Truthy(block) THEN Bool(TRUE)
    ELSE IF ~IsDict(block) THEN Raise("AttributeError")
    ELSE Bool(\E i \in 1..Len(block.e) : block.e[i].v = None)

\* The outcome of the first pass that ends the loop, False when none does.
FirstDecided(passes) ==
    IF \E i \in 1..Len(passes) : passes[i] # Bool(FALSE)
    THEN passes[CHOOSE i \in 1..Len(passes) :
                  passes[i] # Bool(FALSE) /\ \A j \in 1..(i - 1) : passes[j] = Bool(FALSE)]
    ELSE Bool(FALSE)

has_missing_fields(report) ==
    IF ~IsDict(report) THEN Bool(TRUE)
    ELSE FirstDecided([i \in 1..Len(Sections) |->
                         BlockMissing(RawSection(report, Sections[i]))])

\* ------------------------------------------------------- source reconciler
\* Mutant: {**(yrep.get("metadata") or {}), **(prep.get("metadata") or {})}
MergeMetadata_SecondaryOverrides(ycan, pcan) ==
    LET pm == Or(Get(pcan, "metadata"), EmptyDict)
        ym == Or(Get(ycan, "metadata"), EmptyDict)
    IN IF ~IsDict(pm) \/ ~IsDict(ym) THEN Raise("TypeError")
       ELSE Update(ym, pm)

\* meta = {**(prep.get("metadata") or {}), **(yrep.get("metadata") or {})}
MergeMetadata(ycan, pcan) ==
    LET pm == Or(Get(pcan, "metadata"), EmptyDict)
        ym == Or(Get(ycan, "metadata"), EmptyDict)
    IN IF ~IsDict(pm) \/ ~IsDict(ym) THEN Raise("TypeError")
       ELSE Update(pm, ym)

\* Mutant: uy["currency"] if uy.get("currency") is not None else up.get("currency")
MergeCurrency_IsNotNone(uy, up) ==
    IF ~IsDict(uy) THEN Raise("AttributeError")
    ELSE IF Get(uy, "currency") # None THEN Get(uy, "currency")
    ELSE IF ~IsDict(up) THEN Raise("AttributeError")
    ELSE Get(up, "currency")

\* uy.get("currency") or up.get("currency")
MergeCurrency(uy, up) ==
    IF ~IsDict(uy) THEN Raise("AttributeError")
    ELSE IF Truthy(Get(uy, "currency")) THEN Get(uy, "currency")
    ELSE IF ~IsDict(up) THEN Raise("AttributeError")
    ELSE Get(up, "currency")

\* uy.get("scale", 1) if uy.get("scale") is not None else up.get("scale", 1)
MergeScale(uy, up) ==
    IF ~IsDict(uy) THEN Raise("AttributeError")
    ELSE IF Get(uy, "scale") # None THEN GetDefault(uy, "scale", Int2Num(1))
    ELSE IF ~IsDict(up) THEN Raise("AttributeError")
    ELSE GetDefault(up, "scale", Int2Num(1))

MergeUnits(ycan, pcan) ==
    LET uy == Or(Get(ycan, "units"), EmptyDict)
        up == Or(Get(pcan, "units"), EmptyDict)
        currency == MergeCurrency(uy, up)
        scale == MergeScale(uy, up)
    IN IF IsRaise(currency) THEN currency
       ELSE IF IsRaise(scale) THEN scale
       ELSE Dict(<<Entry("currency", currency), Entry("scale", scale)>>)

\* Mutant: `if vy:` / `elif vp:` in place of the `is not None` tests.
Choose_Truthiness(vy, vp) ==
    IF Truthy(vy) THEN [chosen |-> vy, source |-> "yahoo"]
    ELSE IF Truthy(vp) THEN [chosen |-> vp, source |-> "pdf"]
    ELSE [chosen |-> None, source |-> "missing"]

\* Mutant: the final `else` branch is lost, the fallback is labelled pdf.
Choose_NoMissingBranch(vy, vp) ==
    IF vy # None THEN [chosen |-> vy, source |-> "yahoo"]
    ELSE [chosen |-> vp, source |-> "pdf"]

\* The precedence rule of one field: (chosen, src).
Choose(vy, vp) ==
    IF vy # None THEN [chosen |-> vy, source |-> "yahoo"]
    ELSE IF vp # None THEN [chosen |-> vp, source |-> "pdf"]
    ELSE [chosen |-> None, source |-> "missing"]

Row(section, field, vy, vp) ==
    [section |-> section, field |-> field, yahoo |-> vy, pdf |-> vp,
     chosen |-> Choose(vy, vp).chosen, source |-> Choose(vy, vp).source]

\* The rows the inner loop appends for one section.
SectionRows(ycan, pcan, section) ==
    LET fy == Or(Get(ycan, section), EmptyDict)
        fp == Or(Get(pcan, section), EmptyDict)
    IN [j \in 1..Len(CANON[section]) |->
          Row(section, CANON[section][j],
              Get(fy, CANON[section][j]), Get(fp, CANON[section][j]))]

\* out_sec of one section
OutSection(rows) == Dict([j \in 1..Len(rows) |-> Entry(rows[j].field, rows[j].chosen)])

\* Mutant: a row is appended only when a value was chosen.
AllRows_OnlyChosen(ycan, pcan) ==
    SelectSeq(SectionRows(ycan, pcan, Sections[1]) \o SectionRows(ycan, pcan, Sections[2])
              \o SectionRows(ycan, pcan, Sections[3]) \o SectionRows(ycan, pcan, Sections[4]),
              LAMBDA r : r.source # "missing")

\* rows, after the loop over the four sections
AllRows(ycan, pcan) ==
    SectionRows(ycan, pcan, Sections[1]) \o SectionRows(ycan, pcan, Sections[2])
    \o SectionRows(ycan, pcan, Sections[3]) \o SectionRows(ycan, pcan, Sections[4])

\* The pair returned for the canonicalized reports ycan and pcan.
Reconciled(ycan, pcan) ==
    IF IsRaise(ycan) THEN ycan
    ELSE IF IsRaise(pcan) THEN pcan
    ELSE LET meta == MergeMetadata(ycan, pcan)
             units == MergeUnits(ycan, pcan)
         IN IF IsRaise(meta) THEN meta
            ELSE IF IsRaise(units) THEN units
            ELSE [t |-> "tuple",
                  final |-> Dict(<<Entry("metadata", meta), Entry("units", units)>>
                                 \o [i \in 1..Len(Sections) |->
                                       Entry(Sections[i],
                                             OutSection(SectionRows(ycan, pcan,
                                                                    Sections[i])))]),
                  rows |-> AllRows(ycan, pcan)]

\* yrep = canonicalize_report(yrep or {}); prep = canonicalize_report(prep or {})
merge_reports_with_provenance(y, p) ==
    CHOOSE r \in {Reconciled(ycan, pcan) :
                    ycan \in {canonicalize_report(Or(y, EmptyDict))},
                    pcan \in {canonicalize_report(Or(p, EmptyDict))}} : TRUE

\* -------------------------------------------------------------- arithmetic
\* int, float and bool operands (a bool counts as 0 or 1).
IsNumber(x) == x.t \in {"num", "bool", "nan", "inf", "bigint"}
AsNum(x) == IF x.t = "bool" THEN Int2Num(IF x.b THEN 1 ELSE 0) ELSE x

\* x == 0
EqualsZero(x) == x.t \in {"num", "bool"} /\ AsNum(x).n = 0

\* a / b.  A zero divisor is a ZeroDivisionError, an operand that is no
\* number a TypeError, an int beyond float range over a (small) number an
\* OverflowError; NaN and the infinities follow IEEE 754.  (No int beyond
\* float range is fed as the divisor.)
TrueDiv(a, b) ==
    LET x == AsNum(a)
        y == AsNum(b)
    IN IF ~IsNumber(a) \/ ~IsNumber(b) THEN Raise("TypeError")
       ELSE IF EqualsZero(y) THEN Raise("ZeroDivisionError")
       ELSE IF x.t = "bigint" \/ y.t = "bigint" THEN Raise("OverflowError")
       ELSE IF x.t = "nan" \/ y.t = "nan" THEN NaN
       ELSE IF x.t = "inf"
            THEN (IF y.t = "inf" THEN NaN ELSE Inf(x.neg # (y.n < 0)))
       ELSE IF y.t = "inf" THEN Int2Num(0)
       ELSE Num(x.n * y.d, x.d * y.n)

\* a + b for ints, floats and bools; None or a container as an operand is a
\* TypeError.  (The sources deliver numbers and null only: no strings, and no
\* int beyond float range, are fed as addends.)
PyAdd(a, b) ==
    LET x == AsNum(a)
        y == AsNum(b)
    IN IF x.t \notin {"num", "nan", "inf"} \/ y.t \notin {"num", "nan", "inf"}
       THEN Raise("TypeError")
       ELSE IF x.t = "nan" \/ y.t = "nan" THEN NaN
       ELSE IF x.t = "inf" THEN (IF y.t = "inf" /\ y.neg # x.neg THEN NaN ELSE x)
       ELSE IF y.t = "inf" THEN y
       ELSE Num(x.n * y.d + y.n * x.d, x.d * y.d)

\* -x and abs(x) for a float x
PyNeg(x) ==
    CASE x.t = "num" -> Num(0 - x.n, x.d)
      [] x.t = "inf" -> Inf(~x.neg)
      [] OTHER -> x

PyAbs(x) ==
    CASE x.t = "num" -> Num(Abs(x.n), x.d)
      [] x.t = "inf" -> Inf(FALSE)
      [] OTHER -> x

\* --------------------------------------------- derived metrics (model.py)
\* Mutant: `if not a or not b: return None`
safe_div_FalsyNumerator(a, b) ==
    IF ~Truthy(a) \/ ~Truthy(b) THEN None
    ELSE LET q == TrueDiv(a, b) IN IF IsRaise(q) THEN None ELSE q

\* try: (None if a is None or b in (None, 0) else a / b) except Exception: None
safe_div(a, b) ==
    IF a = None THEN None
    ELSE IF b = None \/ EqualsZero(b) THEN None
    ELSE LET q == TrueDiv(a, b) IN IF IsRaise(q) THEN None ELSE q

\* Mutant: free_cf = operating_cf - abs(investing_cf)
Backfilled_MinusAbs(cf) ==
    IF Get(cf, "free_cf") = None /\ Get(cf, "operating_cf") # None
       /\ Get(cf, "investing_cf") # None
    THEN Put(cf, "free_cf",
             PyAdd(Get(cf, "operating_cf"),
                   Num(0 - Abs(Get(cf, "investing_cf").n), Get(cf, "investing_cf").d)))
    ELSE cf

\* Mutant: the sum is added to the free_cf already there.
Backfilled_Accumulates(cf) ==
    IF Get(cf, "operating_cf") # None /\ Get(cf, "investing_cf") # None
    THEN Put(cf, "free_cf",
             PyAdd(Or(Get(cf, "free_cf"), Int2Num(0)),
                   PyAdd(Get(cf, "operating_cf"), Get(cf, "investing_cf"))))
    ELSE cf

\* cf after `if cf.get("free_cf") is None and (...): cf["free_cf"] = ...`,
\* or the exception the sum raises.
Backfilled(cf) ==
    IF Get(cf, "free_cf") = None /\ Get(cf, "operating_cf") # None
       /\ Get(cf, "investing_cf") # None
    THEN (LET sum == PyAdd(Get(cf, "operating_cf"), Get(cf, "investing_cf"))
          IN IF IsRaise(sum) THEN sum ELSE Put(cf, "free_cf", sum))
    ELSE cf

\* Mutant: profit_margin is taken over total_equity.
Derived_ProfitMarginOverEquity(inc, bal, cf) ==
    Dict(<<Entry("pe_ratio_basic", None),
           Entry("pe_ratio_diluted", None),
           Entry("profit_margin", safe_div(Get(inc, "net_income"), Get(bal, "total_equity"))),
           Entry("return_on_equity", safe_div(Get(inc, "net_income"), Get(bal, "total_equity"))),
           Entry("gross_margin", safe_div(Get(inc, "gross_profit"), Get(inc, "revenue"))),
           Entry("operating_margin", safe_div(Get(inc, "operating_income"), Get(inc, "revenue"))),
           Entry("debt_to_equity", safe_div(Get(bal, "total_liabilities"), Get(bal, "total_equity"))),
           Entry("asset_turnover", safe_div(Get(inc, "revenue"), Get(bal, "total_assets"))),
           Entry("free_cash_flow_margin", safe_div(Get(cf, "free_cf"), Get(inc, "revenue")))>>)

\* The mapping assigned to report["derived"].
Derived(inc, bal, cf) ==
    Dict(<<Entry("pe_ratio_basic", None),
           Entry("pe_ratio_diluted", None),
           Entry("profit_margin", safe_div(Get(inc, "net_income"), Get(inc, "revenue"))),
           Entry("return_on_equity", safe_div(Get(inc, "net_income"), Get(bal, "total_equity"))),
           Entry("gross_margin", safe_div(Get(inc, "gross_profit"), Get(inc, "revenue"))),
           Entry("operating_margin", safe_div(Get(inc, "operating_income"), Get(inc, "revenue"))),
           Entry("debt_to_equity", safe_div(Get(bal, "total_liabilities"), Get(bal, "total_equity"))),
           Entry("asset_turnover", safe_div(Get(inc, "revenue"), Get(bal, "total_assets"))),
           Entry("free_cash_flow_margin", safe_div(Get(cf, "free_cf"), Get(inc, "revenue")))>>)

Statements == {"income_statement", "balance_sheet", "cash_flow"}

\* One call add_derived(report): ret is what the call returns (the report
\* object itself) or raises, obj is the report object as the call leaves it.
\* cf["free_cf"] and report["derived"] are written into the caller's objects;
\* inc.get / bal.get are evaluated after the backfill was written.
Returned(report) == [ret |-> report, obj |-> report]

\* The call from `report["cash_flow"] = cf` on, cf being the backfilled
\* mapping or the exception the backfill raised.
AddDerivedFrom(report, inc, bal, cf) ==
    IF IsRaise(cf) THEN [ret |-> cf, obj |-> report]
    ELSE IF ~IsDict(inc) \/ ~IsDict(bal)
    THEN [ret |-> Raise("AttributeError"), obj |-> Put(report, "cash_flow", cf)]
    ELSE Returned(Put(Put(report, "cash_flow", cf), "derived", Derived(inc, bal, cf)))

AddDerivedCall(report) ==
    IF ~IsDict(report) THEN [ret |-> Raise("TypeError"), obj |-> report]
    ELSE IF \E k \in Statements : ~Has(report, k)
    THEN [ret |-> Raise("KeyError"), obj |-> report]
    ELSE IF ~IsDict(Get(report, "cash_flow"))
    THEN [ret |-> Raise("AttributeError"), obj |-> report]
    ELSE AddDerivedFrom(report, Get(report, "income_statement"),
                        Get(report, "balance_sheet"),
                        Backfilled(Get(report, "cash_flow")))

add_derived(report) == AddDerivedCall(report).ret

\* add_derived returns the report object it was given, with the statement
\* mappings it was given; only report["derived"] is a new dict.
AddDerivedShared(out) ==
    IF IsRaise(out) THEN {} ELSE {"report"} \cup Statements

\* ------------------------------------------ Analyze action (new_app.py)
\* normalize_ticker: .AX is appended to a code of 2 to 4 characters that has
\* no suffix.
normalize_ticker(t) ==
    LET u == Upper(Strip(t))
    IN IF u = "" THEN u
       ELSE IF "." \in Chars(u) THEN u
       ELSE IF Len(u) >= 2 /\ Len(u) <= 4 THEN u \o ".AX"
       ELSE u

\* ticker_candidate = manual_ticker.strip().upper() if manual_ticker.strip() else None
ManualTicker(manual_ticker) ==
    IF Strip(manual_ticker) # "" THEN Str(Upper(Strip(manual_ticker))) ELSE None

\* prep = (out_meta or {}).get("report"), None when analyze_pdf raised: the
\* except clause is reached before prep is assigned.
ReportOf(out) ==
    IF IsRaise(out) THEN None
    ELSE IF ~IsDict(Or(out, EmptyDict)) THEN None
    ELSE Get(Or(out, EmptyDict), "report")

\* ticker_candidate = (pdf_meta.get("ticker") or "").strip().upper(), None
\* when the try block raised.
ExtractedTicker(out) ==
    LET rep == Or(ReportOf(out), EmptyDict)
        pdf_meta == IF IsDict(rep) THEN Or(Get(rep, "metadata"), EmptyDict) ELSE None
        ticker == IF IsDict(pdf_meta) THEN Or(Get(pdf_meta, "ticker"), Str("")) ELSE None
    IN IF IsRaise(out) \/ ~IsDict(Or(out, EmptyDict)) THEN None
       ELSE IF ticker.t # "str" THEN None
       ELSE Str(Upper(Strip(ticker.s)))

\* need_pdf: True when the fetch gave nothing, else what has_missing_fields
\* says of the canonicalized Yahoo report (or the exception of the two calls).
NeedPdfOf(ycan) == IF IsRaise(ycan) THEN ycan ELSE has_missing_fields(ycan)

NeedPdf(yrep_raw) ==
    IF yrep_raw = None THEN Bool(TRUE) ELSE NeedPdfOf(canonicalize_report(yrep_raw))

\* Mutant: the document is analyzed whenever one was uploaded.
GapFill_WheneverUploaded(need_pdf, uploaded_pdf) == uploaded_pdf

\* if need_pdf and uploaded_pdf is not None
GapFill(need_pdf, uploaded_pdf) == need_pdf.b /\ uploaded_pdf

\* final_report["metadata"] = {**(final_report.get("metadata") or {}), "ticker": yf_ticker}
Stored(m, yf_ticker) ==
    IF IsRaise(m) THEN m
    ELSE [m EXCEPT !.final =
            Put(m.final, "metadata",
                Update(Or(Get(m.final, "metadata"), EmptyDict),
                       Dict(<<Entry("ticker", Str(yf_ticker))>>)))]

\* ------------------------------------------------- chunking (model.py)
\* tag = f"\n\n[PAGE {i}]\n"
Tag(i) == "\n\n[PAGE " \o ToString(i) \o "]\n"

\* Mutant: the page's own length is left out of the test.
Flush_PageNotCounted(buf, tag, page, max_chars) ==
    buf # "" /\ Len(buf) + Len(tag) > max_chars

\* if buf and len(buf) + len(tag) + len(page) > max_chars
Flush(buf, tag, page, max_chars) ==
    buf # "" /\ Len(buf) + Len(tag) + Len(page) > max_chars

\* The loop of chunk_text from page i on, and the final `if buf`.
RECURSIVE ChunkFrom(_, _, _, _, _)
ChunkFrom(pages, i, chunks, buf, max_chars) ==
    IF i > Len(pages)
    THEN IF buf # "" THEN Append(chunks, buf) ELSE chunks
    ELSE LET flush == Flush(buf, Tag(i), pages[i], max_chars)
         IN ChunkFrom(pages, i + 1,
                      IF flush THEN Append(chunks, buf) ELSE chunks,
                      (IF flush THEN "" ELSE buf) \o Tag(i) \o pages[i],
                      max_chars)

\* pages: a sequence of strings; max_chars: an integer.
chunk_text(pages, max_chars) == ChunkFrom(pages, 1, <<>>, "", max_chars)

\* ------------------------------------------- chunk merging (model.py)
KEYS_NUMERIC ==
    <<<<"income_statement", <<"revenue", "gross_profit", "operating_income",
                              "net_income", "eps_basic", "eps_diluted">>>>,
      <<"balance_sheet", <<"total_assets", "total_liabilities", "total_equity",
                           "shares_outstanding">>>>,
      <<"cash_flow", <<"operating_cf", "investing_cf", "financing_cf", "free_cf">>>>>>

\* json.loads(json.dumps(base)): a new object of the same JSON value.
RECURSIVE JsonCopy(_)
JsonCopy(v) ==
    IF v.t = "dict"
    THEN Dict([j \in 1..Len(v.e) |-> Entry(v.e[j].k, JsonCopy(v.e[j].v))])
    ELSE v

\* Mutant: a falsy value (0) of the accumulated report is replaced as well.
Fills_FalsyReplaced(cur, new) == ~Truthy(cur) /\ new # None

\* out[section].get(f) is None and inc.get(section, {}).get(f) is not None
Fills(cur, new) == cur = None /\ new # None

\* for f in fields: ... out[section][f] = inc[section][f].  A field the
\* section of out holds keeps its place; a field it lacks is appended, in the
\* order of fields.
FillFrom(outsec, incsec, fields) ==
    LET F == {fields[n] : n \in 1..Len(fields)}
    IN Dict([j \in 1..Len(outsec.e) |->
                IF outsec.e[j].k \in F /\ Fills(outsec.e[j].v, Get(incsec, outsec.e[j].k))
                THEN Entry(outsec.e[j].k, Get(incsec, outsec.e[j].k))
                ELSE outsec.e[j]]
            \o [n \in 1..Len(SelectSeq(fields, LAMBDA f : ~Has(outsec, f)
                                                          /\ Fills(None, Get(incsec, f)))) |->
                  LET f == SelectSeq(fields, LAMBDA g : ~Has(outsec, g)
                                                       /\ Fills(None, Get(incsec, g)))[n]
                  IN Entry(f, Get(incsec, f))])

\* The fields the loop visits in a section of base.
FieldsOf(base, section) ==
    IF section = "derived"
    THEN [j \in 1..Len(Get(base, "derived").e) |-> Get(base, "derived").e[j].k]
    ELSE KEYS_NUMERIC[CHOOSE n \in 1..Len(KEYS_NUMERIC) : KEYS_NUMERIC[n][1] = section][2]

\* for section, fields in KEYS_NUMERIC + [("derived", list(base["derived"].keys()))]
FillSections(out, inc, base) ==
    Dict([j \in 1..Len(out.e) |->
            IF out.e[j].k \in SectionSet
            THEN Entry(out.e[j].k,
                       FillFrom(out.e[j].v, GetDefault(inc, out.e[j].k, EmptyDict),
                                FieldsOf(base, out.e[j].k)))
            ELSE out.e[j]])

\* x in (None, 1)
NoneOrOne(x) == x \in {None, Int2Num(1), Bool(TRUE)}

\* The two unit rules, on the units of out and of inc.
UnitsMerged(units, incunits) ==
    LET cur == IF Get(units, "currency") = None /\ Truthy(Get(incunits, "currency"))
               THEN Put(units, "currency", Get(incunits, "currency")) ELSE units
    IN IF NoneOrOne(Get(cur, "scale")) /\ ~NoneOrOne(Get(incunits, "scale"))
       THEN Put(cur, "scale", Get(incunits, "scale")) ELSE cur

\* One call merge_reports(base, inc): ret is the new report (or the
\* exception), base the base object as the call leaves it.  Nothing is
\* written to base: out is a copy and every write goes to out.
MergeReportsCall(base, inc) ==
    IF \E k \in SectionSet \cup {"units"} : ~Has(base, k)
    THEN [ret |-> Raise("KeyError"), base |-> base]
    ELSE IF \/ ~IsDict(inc)
            \/ \E k \in SectionSet \cup {"units"} : ~IsDict(Get(base, k))
            \/ \E k \in SectionSet \cup {"units"} : Has(inc, k) /\ ~IsDict(Get(inc, k))
    THEN [ret |-> Raise("AttributeError"), base |-> base]
    ELSE LET filled == FillSections(JsonCopy(base), inc, base)
         IN [ret |-> Put(filled, "units",
                         UnitsMerged(Get(filled, "units"), GetDefault(inc, "units", EmptyDict))),
             base |-> base]

merge_reports(base, inc) == MergeReportsCall(base, inc).ret

\* ------------------------------------------------ JSON_SCHEMA (model.py)
IsNumberType(v) == v.t \in {"num", "nan", "inf", "bigint"}
IsStringType(v) == v.t = "str"

\* A section of the part: an object whose schema fields (the section's
\* canonical fields) are number or null; other keys are not constrained.
ValidSection(part, section) ==
    /\ Has(part, section)
    /\ IsDict(Get(part, section))
    /\ \A j \in 1..Len(Get(part, section).e) :
          LET en == Get(part, section).e[j]
          IN (\E n \in 1..Len(CANON[section]) : CANON[section][n] = en.k)
                => en.v = None \/ IsNumberType(en.v)

\* jsonschema_validate(instance=part, schema=JSON_SCHEMA) does not raise.
Valid(part) ==
    /\ IsDict(part)
    /\ \A section \in SectionSet : ValidSection(part, section)
    /\ Has(part, "metadata") /\ IsDict(Get(part, "metadata"))
    /\ LET md == Get(part, "metadata")
       IN /\ Has(md, "as_of") /\ IsStringType(Get(md, "as_of"))
          /\ Has(md, "source") /\ IsStringType(Get(md, "source"))
          /\ Get(md, "ticker") = None \/ IsStringType(Get(md, "ticker"))
    /\ Has(part, "units") /\ IsDict(Get(part, "units"))
    /\ LET un == Get(part, "units")
       IN /\ Has(un, "scale") /\ IsNumberType(Get(un, "scale"))
          /\ Get(un, "currency") = None \/ IsStringType(Get(un, "currency"))

\* ------------------------------------------------- run: one attempt
\* Mutant: one more attempt after the last retry.
LastAttempt_OneMore(a) == a >= MAX_JSON_RETRIES + 1

\* for attempt in range(MAX_JSON_RETRIES + 1): a is the last value.
LastAttempt(a) == a + 1 >= MAX_JSON_RETRIES + 1

\* The body of the try for one reply of the LLM.  The reply is the exception
\* call_llm_json raised, a text that json.loads rejects (a string), or the
\* value json.loads returns.  outcome is "merged", or the exception caught.
AttemptMerged(acc, part, call) ==
    IF IsRaise(call.ret)
    THEN [outcome |-> "Exception", merged |-> acc, part |-> part, base |-> call.base]
    ELSE [outcome |-> "merged", merged |-> call.ret, part |-> part, base |-> call.base]

Attempt(acc, reply) ==
    IF IsRaise(reply)
    THEN [outcome |-> "Exception", merged |-> acc, part |-> None, base |-> acc]
    ELSE IF IsStringType(reply)
    THEN [outcome |-> "JSONDecodeError", merged |-> acc, part |-> None, base |-> acc]
    ELSE IF ~Valid(reply)
    THEN [outcome |-> "ValidationError", merged |-> acc, part |-> None, base |-> acc]
    ELSE AttemptMerged(acc, reply, MergeReportsCall(acc, reply))

Invalid(outcome) == outcome \in {"JSONDecodeError", "ValidationError"}

\* ------------------------------- Yahoo report (financial_sources.py)
\* _safe_num: None stays None, a number becomes a float, anything else is
\* parsed with its commas removed; every exception gives None.  NaN and the
\* infinities pass through.
safe_num(x) ==
    IF x = None THEN None
    ELSE IF IsNumber(x) THEN (IF IsRaise(PyFloat(x)) THEN None ELSE PyFloat(x))
    ELSE LET v == ParseFloat(Replace(PyStr(x), ",", ""))
         IN IF IsRaise(v) THEN None ELSE v

\* _get(df, row, col): df is the latest column of a statement as a mapping
\* from row label to cell, or None when the frame is missing or empty.
FrameGet(df, row) ==
    IF df = None THEN None
    ELSE IF Has(df, row) THEN safe_num(Get(df, row))
    ELSE None

\* _pct(n, d) on floats or None
Pct(n, d) ==
    IF n = None \/ d = None \/ EqualsZero(d) THEN None
    ELSE TrueDiv(PyFloat(n), PyFloat(d))

\* price: the last Close of the one-day history (close, None when the history
\* is empty or the request failed), else currentPrice or last_price.
Price(close, info, fast) ==
    IF close # None THEN close
    ELSE safe_num(Or(Get(info, "currentPrice"), Get(fast, "last_price")))

\* Mutant: the earnings yield eps_basic / price.
PeRatio_EarningsYield(price, eps_basic) ==
    IF price = None \/ eps_basic = None \/ EqualsZero(eps_basic) THEN None
    ELSE TrueDiv(PyFloat(eps_basic), PyFloat(price))

\* None if (price is None or eps_basic in (None, 0))
\*      else float(price) / float(eps_basic)
PeRatio(price, eps_basic) ==
    IF price = None \/ eps_basic = None \/ EqualsZero(eps_basic) THEN None
    ELSE IF IsRaise(PyFloat(eps_basic)) THEN PyFloat(eps_basic)
    ELSE TrueDiv(PyFloat(price), PyFloat(eps_basic))

\* y is the ticker's data as yfinance returns it: info, fast (fast_info),
\* inc, bal, cf (latest columns of the three statements), close; today is
\* the current UTC date.
build_report_from_yfinance(ticker, y, today) ==
    LET info == Or(y.info, EmptyDict)
        fast == Or(y.fast, EmptyDict)
        currency == Or(Or(Get(info, "currency"), Get(fast, "currency")), Str(""))
        revenue == Or(FrameGet(y.inc, "Total Revenue"), FrameGet(y.inc, "TotalRevenue"))
        gross_profit == Or(FrameGet(y.inc, "Gross Profit"), FrameGet(y.inc, "GrossProfit"))
        operating_income ==
            Or(FrameGet(y.inc, "Operating Income"), FrameGet(y.inc, "OperatingIncome"))
        net_income == Or(FrameGet(y.inc, "Net Income"), FrameGet(y.inc, "NetIncome"))
        eps_basic == Get(info, "trailingEps")
        eps_diluted == eps_basic
        total_assets == Or(FrameGet(y.bal, "Total Assets"), FrameGet(y.bal, "TotalAssets"))
        total_liabilities == Or(FrameGet(y.bal, "Total Liab"), FrameGet(y.bal, "TotalLiab"))
        total_equity ==
            IF total_assets # None /\ total_liabilities # None
            THEN PyAdd(total_assets, PyNeg(total_liabilities))
            ELSE None
        shares_outstanding == safe_num(Or(Get(info, "sharesOutstanding"), Get(fast, "shares")))
        operating_cf == Or(FrameGet(y.cf, "Total Cash From Operating Activities"),
                           FrameGet(y.cf, "OperatingCashFlow"))
        capex == Or(FrameGet(y.cf, "Capital Expenditures"),
                    FrameGet(y.cf, "CapitalExpenditures"))
        investing_cf == Or(FrameGet(y.cf, "Total Cashflows From Investing Activities"),
                           FrameGet(y.cf, "InvestingCashFlow"))
        financing_cf == Or(FrameGet(y.cf, "Total Cash From Financing Activities"),
                           FrameGet(y.cf, "FinancingCashFlow"))
        free_cf ==
            IF operating_cf # None /\ capex # None
            THEN PyAdd(operating_cf, PyNeg(PyAbs(capex)))
            ELSE None
        price == Price(y.close, info, fast)
        asset_turnover ==
            IF total_assets = None \/ EqualsZero(total_assets) \/ revenue = None THEN None
            ELSE TrueDiv(PyFloat(revenue), PyFloat(total_assets))
        debt_to_equity ==
            IF total_equity = None \/ EqualsZero(total_equity) \/ total_liabilities = None
            THEN None
            ELSE TrueDiv(PyFloat(total_liabilities), PyFloat(total_equity))
        pe_ratio == PeRatio(price, eps_basic)
    IN IF IsRaise(pe_ratio) THEN pe_ratio
       ELSE Dict(<<
           Entry("metadata", Dict(<<Entry("ticker", ticker), Entry("as_of", today),
                                    Entry("source", Str("Yahoo Finance via yfinance"))>>)),
           Entry("units", Dict(<<Entry("currency", currency),
                                 Entry("scale", Int2Num(YahooScale))>>)),
           Entry("income_statement",
                 Dict(<<Entry("revenue", revenue), Entry("gross_profit", gross_profit),
                        Entry("operating_income", operating_income),
                        Entry("net_income", net_income), Entry("eps_basic", eps_basic),
                        Entry("eps_diluted", eps_diluted)>>)),
           Entry("balance_sheet",
                 Dict(<<Entry("total_assets", total_assets),
                        Entry("total_liabilities", total_liabilities),
                        Entry("total_equity", total_equity),
                        Entry("shares_outstanding", shares_outstanding)>>)),
           Entry("cash_flow",
                 Dict(<<Entry("operating_cf", operating_cf), Entry("investing_cf", investing_cf),
                        Entry("financing_cf", financing_cf), Entry("free_cf", free_cf)>>)),
           Entry("derived",
                 Dict(<<Entry("profit_margin", Pct(net_income, revenue)),
                        Entry("gross_margin", Pct(gross_profit, revenue)),
                        Entry("operating_margin", Pct(operating_income, revenue)),
                        Entry("free_cash_flow_margin", Pct(free_cf, revenue)),
                        Entry("return_on_equity", Pct(net_income, total_equity)),
                        Entry("asset_turnover", asset_turnover),
                        Entry("debt_to_equity", debt_to_equity),
                        Entry("pe_ratio_basic", pe_ratio),
                        Entry("pe_ratio_diluted", pe_ratio)>>))>>)

\* ------------------------------------------------------------------ inputs
\* Values that are not mappings: None, [], [x], "abc", 0, 5.
NonMappings == {None, List(0), List(1), Str("abc"), Int2Num(0), Int2Num(5)}

\* Raw field values as the two sources deliver them.
RawValues ==
    {None, NaN, Inf(FALSE), Bool(TRUE), List(1),
     Str("1,000"), Str("100"), Str("N/A"), Str("12.5%"), Str(" 7 "), Str("-"), Str(""),
     Str("inf%")}
    \cup {Int2Num(i) : i \in 0..MaxInt}

IncomeKeys == {"revenue", "Total Revenue", "TotalRevenue", "sales", "net_income",
               "EBIT", "bogus", "total_assets"}

\* Keys and values of the raw sections with more than one entry.
FewKeys == {"revenue", "sales", "net_income"}
FewValues == {None, Int2Num(0), Int2Num(MaxInt)}

\* Entry sequences of length n over FewKeys x FewValues, keys distinct.
RECURSIVE EntrySeqs(_)
EntrySeqs(n) ==
    IF n = 0 THEN {<<>>}
    ELSE {Append(es, Entry(k, v)) :
            es \in EntrySeqs(n - 1), k \in FewKeys, v \in FewValues}

DistinctKeys(es) == \A i, j \in 1..Len(es) : es[i].k = es[j].k => i = j

IncomeSections ==
    {Dict(<<Entry(k, v)>>) : k \in IncomeKeys, v \in RawValues}
    \cup UNION {{Dict(es) : es \in {x \in EntrySeqs(n) : DistinctKeys(x)}} :
                  n \in 2..MaxEntries}

OtherSections ==
    {<<"balance_sheet", Dict(<<Entry("Total Assets", Str("2,500")), Entry("x", Int2Num(1))>>)>>,
     <<"balance_sheet", Dict(<<Entry("total_liab", Int2Num(1)), Entry("Equity", Int2Num(0))>>)>>,
     <<"cash_flow", Dict(<<Entry("FCF", Int2Num(1)), Entry("revenue", Int2Num(2))>>)>>,
     <<"cash_flow", Dict(<<Entry("operating_cf", None)>>)>>,
     <<"derived", Dict(<<Entry("ROE", Str("12.5%")), Entry("pe", Str("n/a"))>>)>>,
     <<"derived", EmptyDict>>}

\* A section that is null, or not a mapping.
BadSections ==
    {<<s, v>> : s \in {"income_statement", "derived"},
                v \in {None, List(0), List(1), Str("abc"), Int2Num(5)}}

OneSection(s, v) == Dict(<<Entry(s, v)>>)

\* Every field of every section present under its canonical name.
CompleteReport ==
    Dict(<<Entry("metadata", Dict(<<Entry("ticker", Str("A"))>>)),
           Entry("units", Dict(<<Entry("currency", Str("USD")), Entry("scale", Int2Num(1))>>))>>
         \o [i \in 1..Len(Sections) |->
               Entry(Sections[i],
                     Dict([j \in 1..Len(CANON[Sections[i]]) |->
                             Entry(CANON[Sections[i]][j], Int2Num(j - 1))]))])

ScenarioPrimary ==
    Dict(<<Entry("income_statement", Dict(<<Entry("TotalRevenue", Str("1,000"))>>)),
           Entry("balance_sheet", EmptyDict),
           Entry("cash_flow", EmptyDict),
           Entry("derived", EmptyDict)>>)

ScenarioSecondary ==
    OneSection("income_statement", Dict(<<Entry("net_income", Str("100"))>>))

UnitsValues ==
    {None, List(1), Str("AUD"), EmptyDict,
     Dict(<<Entry("currency", Str("USD")), Entry("scale", Int2Num(1))>>),
     Dict(<<Entry("currency", Str("AUD")), Entry("scale", Int2Num(1000000))>>),
     Dict(<<Entry("currency", None), Entry("scale", None)>>),
     Dict(<<Entry("currency", Str("")), Entry("scale", Int2Num(1000))>>),
     Dict(<<Entry("currency", Str("EUR"))>>),
     Dict(<<Entry("scale", Int2Num(0))>>)}

MetadataValues ==
    {None, List(1), EmptyDict,
     Dict(<<Entry("ticker", Str("A"))>>),
     Dict(<<Entry("ticker", None), Entry("as_of", Str("2024"))>>),
     Dict(<<Entry("source", Str("pdf")), Entry("ticker", Str("B"))>>)}

\* The raw reports handed to the reconciler.
MergeInputs ==
    {None, List(0), List(1), EmptyDict, CompleteReport, ScenarioPrimary, ScenarioSecondary}
    \cup {OneSection("income_statement", Dict(<<Entry("revenue", v)>>)) :
            v \in {None} \cup {Int2Num(i) : i \in 0..MaxInt}}
    \cup {OneSection("income_statement", Dict(<<Entry("net_income", Int2Num(MaxInt))>>)),
          OneSection("derived", List(1)),
          OneSection("cash_flow", Dict(<<Entry("FCF", Int2Num(0))>>)),
          OneSection("balance_sheet", Dict(<<Entry("total_assets", BigInt)>>))}
    \cup {OneSection("units", u) : u \in UnitsValues}
    \cup {OneSection("metadata", m) : m \in MetadataValues}

\* The raw reports handed to the canonicalizer.
CanonInputs ==
    NonMappings
    \cup MergeInputs
    \cup {OneSection("income_statement", sec) : sec \in IncomeSections}
    \cup {OneSection(x[1], x[2]) : x \in OtherSections \cup BadSections}

\* A complete report but for one field of the last section.
NoDilutedRatio ==
    Put(CompleteReport, "derived",
        Put(Get(CompleteReport, "derived"), "pe_ratio_diluted", None))

\* The reports handed to the completeness check: raw reports, among them the
\* complete report in its canonical form, and the report that lacks one field.
HasMissingInputs == CanonInputs \cup {NoDilutedRatio}

\* The reports a Yahoo fetch of the Analyze action returns: complete, one
\* ratio missing, or nothing but a revenue.
YahooReports == {CompleteReport, NoDilutedRatio, ScenarioPrimary}

\* Every field name of the canonical schema.
CanonicalFields == UNION {{CANON[s][j] : j \in 1..Len(CANON[s])} : s \in SectionSet}

\* The raw keys handed to the key canonicalizer: every spelling of the
\* synonym table, every canonical key, and spellings as the sources write them.
CanonKeyInputs ==
    DOMAIN SYNONYMS
    \cup CanonicalFields
    \cup {"Total Revenue", "EBIT", "ROE", "fcf", " FCF ", "Net Profit", "total_liilities",
          "Total Liab", "TotalRevenue", "bogus", "Bogus Key", ""}

\* The values handed to the coercion: null, ints and floats, booleans,
\* strings as the sources write numbers, and objects that are none of these.
ToNumInputs ==
    {None, NaN, Inf(FALSE), Inf(TRUE), Bool(TRUE), Bool(FALSE), BigInt,
     Num(5, 2), Int2Num(0 - 3), List(0), List(1), EmptyDict}
    \cup {Int2Num(i) : i \in 0..MaxInt}
    \cup {Str(s) : s \in {"1,234.50", "12.5%", "N/A", EmDash, "-", " - ", "nan", "NaN",
                          "None", "NULL", "", "  ", "1,0%", "10%", "1 %", "%", "inf%",
                          "inf", "-inf", " 7 ", "1,000", "-5", "+2", "abc", "1.2.3",
                          "0", "0%"}}

\* The operands handed to safe_div.
Operands ==
    {None, NaN, Inf(FALSE), Bool(TRUE), Bool(FALSE), Str("abc"), List(1),
     Num(5, 2), Int2Num(0 - 3), Int2Num(5), Int2Num(10)}
    \cup {Int2Num(i) : i \in 0..MaxInt}

SafeDivInputs == (Operands \cup {BigInt}) \X Operands

\* Statement amounts as the extraction schema admits them: null or a number.
Amounts == {None} \cup {Int2Num(i) : i \in (0 - 1)..MaxInt}

\* report[section][field] = v
SetField(report, section, field, v) ==
    Put(report, section, Put(Get(report, section), field, v))

\* The report run() starts from: every statement and derived field null.
RunReport ==
    Dict(<<Entry("metadata", Dict(<<Entry("ticker", Str("A")), Entry("as_of", Str("2024-01-01")),
                                    Entry("source", Str("a.pdf"))>>)),
           Entry("units", Dict(<<Entry("currency", None), Entry("scale", Int2Num(1))>>)),
           Entry("income_statement",
                 Dict([j \in 1..Len(CANON["income_statement"]) |->
                         Entry(CANON["income_statement"][j], None)])),
           Entry("balance_sheet",
                 Dict([j \in 1..Len(CANON["balance_sheet"]) |->
                         Entry(CANON["balance_sheet"][j], None)])),
           Entry("cash_flow",
                 Dict([j \in 1..Len(CANON["cash_flow"]) |->
                         Entry(CANON["cash_flow"][j], None)])),
           Entry("derived",
                 Dict(<<Entry("pe_ratio_basic", None), Entry("pe_ratio_diluted", None),
                        Entry("profit_margin", None), Entry("return_on_equity", None),
                        Entry("gross_margin", None), Entry("operating_margin", None),
                        Entry("debt_to_equity", None), Entry("asset_turnover", None),
                        Entry("free_cash_flow_margin", None)>>))>>)

\* net_income, revenue, total_equity
MarginReports ==
    {SetField(SetField(SetField(RunReport, "income_statement", "net_income", a),
                       "income_statement", "revenue", b),
              "balance_sheet", "total_equity", c) : a \in Amounts, b \in Amounts, c \in Amounts}

\* gross_profit, operating_income, revenue
ProfitReports ==
    {SetField(SetField(SetField(RunReport, "income_statement", "gross_profit", a),
                       "income_statement", "operating_income", b),
              "income_statement", "revenue", c) : a \in Amounts, b \in Amounts, c \in Amounts}

\* total_liabilities, total_equity, total_assets, revenue
BalanceReports ==
    {SetField(SetField(SetField(SetField(RunReport, "balance_sheet", "total_liabilities", a),
                                "balance_sheet", "total_equity", b),
                       "balance_sheet", "total_assets", c),
              "income_statement", "revenue", d) :
        a \in Amounts, b \in Amounts, c \in Amounts, d \in Amounts}

\* operating_cf, investing_cf, free_cf, revenue
CashReports ==
    {SetField(SetField(SetField(SetField(RunReport, "cash_flow", "operating_cf", a),
                                "cash_flow", "investing_cf", b),
                       "cash_flow", "free_cf", c),
              "income_statement", "revenue", d) :
        a \in Amounts, b \in Amounts, c \in Amounts, d \in Amounts}

\* income {net_income: 50, revenue: 200}, balance {total_equity: 250}
ExampleReport ==
    Dict(<<Entry("income_statement", Dict(<<Entry("net_income", Int2Num(50)),
                                            Entry("revenue", Int2Num(200))>>)),
           Entry("balance_sheet", Dict(<<Entry("total_equity", Int2Num(250))>>)),
           Entry("cash_flow", EmptyDict)>>)

\* Reports without a derived section or a free_cf key, with extracted derived
\* values, and reports that lack a statement or hold one that is no mapping.
OtherReports ==
    {ExampleReport,
     SetField(ExampleReport, "cash_flow", "operating_cf", Int2Num(MaxInt)),
     SetField(SetField(ExampleReport, "cash_flow", "operating_cf", Int2Num(MaxInt)),
              "cash_flow", "investing_cf", Int2Num(0 - 1)),
     SetField(RunReport, "derived", "pe_ratio_basic", Int2Num(MaxInt)),
     SetField(RunReport, "derived", "profit_margin", Num(1, 2)),
     None, EmptyDict,
     Dict(<<Entry("income_statement", EmptyDict), Entry("balance_sheet", EmptyDict)>>),
     Put(RunReport, "cash_flow", None),
     Put(RunReport, "balance_sheet", List(0)),
     Put(SetField(SetField(RunReport, "cash_flow", "operating_cf", Int2Num(1)),
                  "cash_flow", "investing_cf", Int2Num(1)),
         "income_statement", None)}

AddDerivedInputs ==
    MarginReports \cup ProfitReports \cup BalanceReports \cup CashReports \cup OtherReports

\* Latest columns of the statements as yfinance delivers them: missing,
\* complete under the spaced labels, and under the unspaced labels with a NaN
\* cell, a zero cell and a positive capital expenditure.
IncomeFrames ==
    <<None,
      Dict(<<Entry("Total Revenue", Int2Num(4)), Entry("Gross Profit", Int2Num(2)),
             Entry("Operating Income", Int2Num(1)), Entry("Net Income", Int2Num(1))>>),
      Dict(<<Entry("TotalRevenue", Int2Num(0)), Entry("GrossProfit", NaN),
             Entry("NetIncome", Int2Num(0 - 1))>>)>>

BalanceFrames ==
    <<None,
      Dict(<<Entry("Total Assets", Int2Num(5)), Entry("Total Liab", Int2Num(3))>>),
      Dict(<<Entry("TotalAssets", Int2Num(2)), Entry("TotalLiab", Int2Num(2))>>)>>

CashFrames ==
    <<None,
      Dict(<<Entry("Total Cash From Operating Activities", Int2Num(3)),
             Entry("Capital Expenditures", Int2Num(0 - 1)),
             Entry("Total Cashflows From Investing Activities", Int2Num(0 - 2)),
             Entry("Total Cash From Financing Activities", Int2Num(1))>>),
      Dict(<<Entry("OperatingCashFlow", Int2Num(3)), Entry("CapitalExpenditures", Int2Num(1)),
             Entry("InvestingCashFlow", NaN)>>)>>

\* What yfinance returns for a ticker: the statements, the last Close (None:
\* no history), currentPrice, last_price and trailingEps (None: not reported).
YahooData ==
    {[info |-> Dict(<<Entry("currency", IF i = 2 THEN Str("USD") ELSE None),
                      Entry("currentPrice", current), Entry("trailingEps", eps),
                      Entry("sharesOutstanding", IF i = 2 THEN Str("1,000") ELSE None)>>),
      fast |-> Dict(<<Entry("currency", IF i = 3 THEN Str("AUD") ELSE None),
                      Entry("last_price", last),
                      Entry("shares", IF i = 3 THEN Int2Num(7) ELSE None)>>),
      inc |-> IncomeFrames[i], bal |-> BalanceFrames[i], cf |-> CashFrames[i],
      close |-> close] :
        i \in 1..3,
        close \in {None, Int2Num(1), Int2Num(MaxInt)},
        current \in {None, Int2Num(0), Int2Num(MaxInt)},
        last \in {None, Int2Num(1)},
        eps \in {None, Int2Num(0), Int2Num(1), Int2Num(MaxInt), Int2Num(0 - 1), Num(1, 2)}}

\* Page texts, page lists and limits for chunk_text: a tagged page is 11 to
\* 13 characters long, so the limits make one, two or more pages fit.
PageTexts == {"", "a", "ab"}

RECURSIVE PageLists(_)
PageLists(n) ==
    IF n = 0 THEN {<<>>}
    ELSE {Append(ps, t) : ps \in PageLists(n - 1), t \in PageTexts}

ChunkTextInputs ==
    (UNION {PageLists(n) : n \in 0..MaxPages})
        \X {0 - 1, 0, 12, 24, 25, 36, CHUNK_MAX_CHARS}

\* Replies of the LLM to one prompt of run(): three parts the schema accepts,
\* a JSON object without metadata, a text that is no JSON, and a failed call.
PartZeroRevenue == SetField(RunReport, "income_statement", "revenue", Int2Num(0))

PartWithRatio ==
    Put(SetField(SetField(RunReport, "income_statement", "revenue", Int2Num(MaxInt)),
                 "derived", "pe_ratio_basic", Int2Num(MaxInt)),
        "units", Dict(<<Entry("currency", Str("USD")), Entry("scale", Int2Num(1000))>>))

PartMillions ==
    Put(SetField(SetField(RunReport, "income_statement", "net_income", Int2Num(1)),
                 "derived", "pe_ratio_basic", Int2Num(1)),
        "units", Dict(<<Entry("currency", Str("")), Entry("scale", Int2Num(1000000))>>))

Replies ==
    {PartZeroRevenue, PartWithRatio, PartMillions,
     Dict(Tail(RunReport.e)), Str("no json"), Raise("Exception")}

\* The chunk lists run() works on, produced with a small limit: none, one
\* and two chunks.
RunInputs == {<<chunk_text(pages, 12)>> : pages \in {<<>>, <<"a">>, <<"a", "ab">>}}

\* What the user gives the Analyze action: the override ticker typed in,
\* whether a PDF was uploaded, and what guess_ticker_from_filename finds in
\* its name.
AnalyzeInputs ==
    {<<[manual_ticker |-> m, uploaded_pdf |-> u, guess |-> g]>> :
        m \in {"", " bhp "}, u \in BOOLEAN, g \in {None, Str("HVN")}}

\* The report of the fallback analyze_pdf of analyze_pdf.py.
StubReport(ticker) ==
    Dict(<<Entry("metadata", Dict(<<Entry("ticker", Str(ticker)), Entry("as_of", None),
                                    Entry("source", Str("PDF model (stub)"))>>)),
           Entry("units", Dict(<<Entry("currency", Str("")), Entry("scale", Int2Num(1000000))>>)),
           Entry("income_statement", EmptyDict), Entry("balance_sheet", EmptyDict),
           Entry("cash_flow", EmptyDict), Entry("derived", EmptyDict)>>)

\* What analyze_pdf(pdf_bytes, ticker) gives: an exception, nothing, the stub
\* report, or a report of run() for that ticker (only net_income extracted,
\* so every ratio null).
AnalyzerOuts(ticker) ==
    {Raise("Exception"), None,
     Dict(<<Entry("report", StubReport(ticker))>>),
     Dict(<<Entry("report",
                  Put(SetField(RunReport, "income_statement", "net_income", Int2Num(MaxInt)),
                      "metadata",
                      Put(Get(RunReport, "metadata"), "ticker", Str(ticker))))>>)}

\* ----------------------------------------------------------- state machine
\* frame holds the local variables of a function that runs in several steps;
\* log lists the calls made to the services outside the program.
NoFrame == [f |-> "none"]

\* One behaviour is one call: Init draws the operation and its arguments,
\* the operation's action runs it to its return (or its exception).
Init ==
    /\ pc = "call"
    /\ ret = None
    /\ \/ op = "canonicalize_report" /\ args \in {<<report>> : report \in CanonInputs}
       \/ op = "merge_reports_with_provenance" /\ args \in MergeInputs \X MergeInputs
       \/ op = "has_missing_fields" /\ args \in {<<report>> : report \in HasMissingInputs}
       \/ op = "_canon_key" /\ args \in {<<Str(k)>> : k \in CanonKeyInputs}
       \/ op = "_to_num" /\ args \in {<<x>> : x \in ToNumInputs}
       \/ op = "safe_div" /\ args \in SafeDivInputs
       \/ op = "add_derived" /\ args \in {<<report>> : report \in AddDerivedInputs}
       \/ op = "build_report_from_yfinance"
          /\ args \in {<<Str("A"), y, Str("2024-01-01")>> : y \in YahooData}
       \/ op = "chunk_text" /\ args \in ChunkTextInputs
       \/ op = "run" /\ args \in RunInputs
       \/ op = "analyze" /\ args \in AnalyzeInputs
    /\ after = args
    /\ shared = {}
    /\ frame = NoFrame
    /\ log = <<>>

\* The state after canonicalize_report(report) returned out.
CanonicalizedTo(report, out) ==
    /\ ret' = out
    /\ shared' = CanonShared(report, out)

CanonicalizeReport ==
    /\ pc = "call"
    /\ op = "canonicalize_report"
    /\ \E out \in {canonicalize_report(args[1])} : CanonicalizedTo(args[1], out)
    /\ pc' = "done"
    /\ UNCHANGED <<op, args, after, frame, log>>

MergeReportsWithProvenance ==
    /\ pc = "call"
    /\ op = "merge_reports_with_provenance"
    /\ ret' = merge_reports_with_provenance(args[1], args[2])
    /\ pc' = "done"
    /\ shared' = {}
    /\ UNCHANGED <<op, args, after, frame, log>>

\* The caller passes the report it got back to canonicalize_report once more.
CanonicalizeAgain ==
    /\ pc = "done"
    /\ op = "canonicalize_report"
    /\ IsDict(args[1])
    /\ ~IsRaise(ret)
    /\ \E out \in {canonicalize_report(ret)} : CanonicalizedTo(ret, out)
    /\ pc' = "twice"
    /\ UNCHANGED <<op, args, after, frame, log>>

HasMissingFields ==
    /\ pc = "call"
    /\ op = "has_missing_fields"
    /\ ret' = has_missing_fields(args[1])
    /\ pc' = "done"
    /\ shared' = {}
    /\ UNCHANGED <<op, args, after, frame, log>>

CanonKey ==
    /\ pc = "call"
    /\ op = "_canon_key"
    /\ ret' = Str(canon_key(args[1].s))
    /\ pc' = "done"
    /\ shared' = {}
    /\ UNCHANGED <<op, args, after, frame, log>>

ToNum ==
    /\ pc = "call"
    /\ op = "_to_num"
    /\ ret' = to_num(args[1])
    /\ pc' = "done"
    /\ shared' = {}
    /\ UNCHANGED <<op, args, after, frame, log>>

SafeDiv ==
    /\ pc = "call"
    /\ op = "safe_div"
    /\ ret' = safe_div(args[1], args[2])
    /\ pc' = "done"
    /\ shared' = {}
    /\ UNCHANGED <<op, args, after, frame, log>>

\* The state after the call.
AddDerivedTo(call) ==
    /\ ret' = call.ret
    /\ after' = <<call.obj>>
    /\ shared' = AddDerivedShared(call.ret)

AddDerived ==
    /\ pc = "call"
    /\ op = "add_derived"
    /\ \E call \in {AddDerivedCall(args[1])} : AddDerivedTo(call)
    /\ pc' = "done"
    /\ UNCHANGED <<op, args, frame, log>>

\* The caller passes the report it got back to add_derived once more.
AddDerivedAgain ==
    /\ pc = "done"
    /\ op = "add_derived"
    /\ ~IsRaise(ret)
    /\ \E call \in {AddDerivedCall(ret)} : AddDerivedTo(call)
    /\ pc' = "twice"
    /\ UNCHANGED <<op, args, frame, log>>

\* args: the ticker, the data yfinance returns for it, the current UTC date.
BuildReportFromYfinance ==
    /\ pc = "call"
    /\ op = "build_report_from_yfinance"
    /\ ret' = build_report_from_yfinance(args[1], args[2], args[3])
    /\ pc' = "done"
    /\ shared' = {}
    /\ UNCHANGED <<op, args, after, frame, log>>

\* args: the page texts and max_chars.
ChunkText ==
    /\ pc = "call"
    /\ op = "chunk_text"
    /\ ret' = chunk_text(args[1], args[2])
    /\ pc' = "done"
    /\ shared' = {}
    /\ UNCHANGED <<op, args, after, frame, log>>

\* run(): the report every field of which is null, before the first chunk.
RunStart ==
    /\ pc = "call"
    /\ op = "run"
    /\ frame' = [i |-> 1, attempt |-> 0, merged |-> RunReport]
    /\ pc' = IF Len(args[1]) = 0 THEN "derive" ELSE "llm"
    /\ UNCHANGED <<op, args, ret, after, shared, log>>

\* The end of one attempt whose outcome is r: the next attempt of the same
\* chunk after an invalid reply that was not the last attempt, else (break,
\* or the loop is exhausted) the next chunk.
RunAttempted(r) ==
    /\ log' = Append(log, [i |-> frame.i, attempt |-> frame.attempt,
                           outcome |-> r.outcome, part |-> r.part,
                           base |-> r.base, merged |-> r.merged])
    /\ IF Invalid(r.outcome) /\ ~LastAttempt(frame.attempt)
       THEN /\ frame' = [frame EXCEPT !.attempt = frame.attempt + 1]
            /\ pc' = pc
       ELSE /\ frame' = [i |-> frame.i + 1, attempt |-> 0, merged |-> r.merged]
            /\ pc' = IF frame.i = Len(args[1]) THEN "derive" ELSE "llm"

\* One pass of the try block: the LLM is called and answers with any reply.
RunAttempt ==
    /\ pc = "llm"
    /\ op = "run"
    /\ \E reply \in Replies :
          \E r \in {Attempt(frame.merged, reply)} : RunAttempted(r)
    /\ UNCHANGED <<op, args, ret, after, shared>>

\* merged = add_derived(merged); ret is the "report" of the dict returned.
RunFinish ==
    /\ pc = "derive"
    /\ op = "run"
    /\ ret' = add_derived(frame.merged)
    /\ pc' = "done"
    /\ UNCHANGED <<op, args, after, shared, frame, log>>

\* The Analyze action of the page.  After the ticker is known (or the action
\* has stopped): frame holds the handler's variables.
TickerDecided(ticker_candidate, prep) ==
    IF ~Truthy(ticker_candidate)
    THEN pc' = "stopped" /\ UNCHANGED frame
    ELSE /\ pc' = "fetch"
         /\ frame' = [yf_ticker |-> normalize_ticker(ticker_candidate.s), prep |-> prep,
                       yrep_raw |-> None, need_pdf |-> Bool(TRUE), prep_raw |-> None]

\* The ticker comes from the override or from the file name; without either
\* and with a PDF the document is analyzed for its metadata.
AnalyzeTickerFrom(ticker_candidate) ==
    IF ~Truthy(ticker_candidate) /\ args[1].uploaded_pdf
    THEN pc' = "extract" /\ UNCHANGED frame
    ELSE TickerDecided(ticker_candidate, None)

AnalyzeTicker ==
    /\ pc = "call"
    /\ op = "analyze"
    /\ IF ~args[1].uploaded_pdf /\ Strip(args[1].manual_ticker) = ""
       THEN pc' = "stopped" /\ UNCHANGED frame
       ELSE AnalyzeTickerFrom(IF ~Truthy(ManualTicker(args[1].manual_ticker))
                                 /\ args[1].uploaded_pdf
                              THEN args[1].guess
                              ELSE ManualTicker(args[1].manual_ticker))
    /\ UNCHANGED <<op, args, ret, after, shared, log>>

\* out_meta = analyze_pdf(pdf_bytes, ticker="DEMO")
AnalyzeExtract ==
    /\ pc = "extract"
    /\ op = "analyze"
    /\ \E out \in AnalyzerOuts("DEMO") :
          /\ TickerDecided(ExtractedTicker(out), ReportOf(out))
          /\ log' = Append(log, [call |-> "analyze_pdf", step |-> "ticker",
                                 ticker |-> "DEMO", result |-> out])
    /\ UNCHANGED <<op, args, ret, after, shared>>

\* The state after the fetch returned yrep_raw; the action ends with the
\* exception when canonicalize_report or has_missing_fields raises.
Fetched(yrep_raw, need_pdf) ==
    IF IsRaise(need_pdf)
    THEN pc' = "done" /\ ret' = need_pdf /\ UNCHANGED frame
    ELSE /\ pc' = "fill"
         /\ frame' = [frame EXCEPT !.yrep_raw = yrep_raw, !.need_pdf = need_pdf]
         /\ UNCHANGED ret

FetchedFrom(result) ==
    /\ \E yrep_raw \in {IF IsRaise(result) THEN None ELSE result} :
          \E need_pdf \in {NeedPdf(yrep_raw)} : Fetched(yrep_raw, need_pdf)
    /\ log' = Append(log, [call |-> "build_report_from_yfinance", step |-> "yahoo",
                           ticker |-> frame.yf_ticker, result |-> result])

\* yrep_raw = build_report_from_yfinance(yf_ticker), then need_pdf
AnalyzeFetch ==
    /\ pc = "fetch"
    /\ op = "analyze"
    /\ \E result \in YahooReports \cup {Raise("Exception")} : FetchedFrom(result)
    /\ UNCHANGED <<op, args, after, shared>>

\* out = analyze_pdf(pdf_bytes, ticker=yf_ticker)
AnalyzeFill ==
    /\ pc = "fill"
    /\ op = "analyze"
    /\ GapFill(frame.need_pdf, args[1].uploaded_pdf)
    /\ \E out \in AnalyzerOuts(frame.yf_ticker) :
          /\ frame' = [frame EXCEPT !.prep_raw = ReportOf(out)]
          /\ log' = Append(log, [call |-> "analyze_pdf", step |-> "gaps",
                                 ticker |-> frame.yf_ticker, result |-> out])
    /\ pc' = "merge"
    /\ UNCHANGED <<op, args, ret, after, shared>>

\* else: prep_raw = prep
AnalyzeNoFill ==
    /\ pc = "fill"
    /\ op = "analyze"
    /\ ~GapFill(frame.need_pdf, args[1].uploaded_pdf)
    /\ frame' = [frame EXCEPT !.prep_raw = frame.prep]
    /\ pc' = "merge"
    /\ UNCHANGED <<op, args, ret, after, shared, log>>

\* The merge; ret is the pair whose report goes to st.session_state["report"].
AnalyzeStore ==
    /\ pc = "merge"
    /\ op = "analyze"
    /\ \E m \in {merge_reports_with_provenance(frame.yrep_raw, frame.prep_raw)} :
          ret' = Stored(m, frame.yf_ticker)
    /\ pc' = "done"
    /\ UNCHANGED <<op, args, after, shared, frame, log>>

Next ==
    \/ CanonicalizeReport
    \/ CanonicalizeAgain
    \/ MergeReportsWithProvenance
    \/ HasMissingFields
    \/ CanonKey
    \/ ToNum
    \/ SafeDiv
    \/ AddDerived
    \/ AddDerivedAgain
    \/ BuildReportFromYfinance
    \/ ChunkText
    \/ RunStart
    \/ RunAttempt
    \/ RunFinish
    \/ AnalyzeTicker
    \/ AnalyzeExtract
    \/ AnalyzeFetch
    \/ AnalyzeFill
    \/ AnalyzeNoFill
    \/ AnalyzeStore

Spec == Init /\ [][Next]_vars

\* ------------------------------------------------------------ properties
Canonicalized == pc = "done" /\ op = "canonicalize_report"
Merged == pc = "done" /\ op = "merge_reports_with_provenance"
\* merge_reports_with_provenance returned its pair (it did not raise).
MergeReturned == Merged /\ ret.t = "tuple"

KeySeq(d) == [j \in 1..Len(d.e) |-> d.e[j].k]
AllNull(d) == \A j \in 1..Len(d.e) : d.e[j].v = None
FieldSet(s) == {CANON[s][j] : j \in 1..Len(CANON[s])}

\* d is a report of the fixed shape: its four sections are mappings holding
\* exactly the canonical keys of the section.
FixedShape(d) ==
    /\ IsDict(d)
    /\ \A s \in SectionSet :
          /\ Has(d, s)
          /\ IsDict(Get(d, s))
          /\ KeySeq(Get(d, s)) = CANON[s]

\* The part of a raw report stored under key k, {} when there is none.
RawPart(raw, k) ==
    IF IsDict(raw) /\ IsDict(Or(Get(raw, k), EmptyDict))
    THEN Or(Get(raw, k), EmptyDict)
    ELSE EmptyDict

\* Every section of the raw mapping is a mapping, absent or null.
SectionsAreMappings(raw) ==
    \A s \in SectionSet : ~Has(raw, s) \/ Get(raw, s) = None \/ IsDict(Get(raw, s))

\* No field value of the raw mapping is an int beyond the range of a float.
ValuesInFloatRange(raw) ==
    \A s \in SectionSet :
        LET sec == RawPart(raw, s) IN \A i \in 1..Len(sec.e) : sec.e[i].v # BigInt

\* C1: for a raw report that is a mapping (its sections mappings, absent or
\* null, its values within the range of a float), every section of the canonicalized report holds all and only the
\* section's canonical keys; a canonical key that no raw key of the section
\* canonicalizes to is present with value null, and unknown keys are dropped.
C1_SectionsHoldExactlyCanonicalKeys ==
    (Canonicalized /\ IsDict(args[1]) /\ SectionsAreMappings(args[1])
        /\ ValuesInFloatRange(args[1])) =>
        /\ FixedShape(ret)
        /\ \A s \in SectionSet : \A f \in FieldSet(s) :
              (\A k \in Keys(RawPart(args[1], s)) : canon_key(k) # f)
                  => Get(Get(ret, s), f) = None

C1_Witness ==
    /\ Canonicalized
    /\ args[1] = OneSection("income_statement",
                            Dict(<<Entry("bogus", Int2Num(1))>>))
    /\ FixedShape(ret)
    /\ ~Has(Get(ret, "income_statement"), "bogus")
    /\ AllNull(Get(ret, "income_statement"))

\* C2: for a raw report that is not a mapping, canonicalize_report does not
\* raise and returns a report of the fixed shape with every value null.
C2_NonMappingYieldsAllNullReport ==
    (Canonicalized /\ ~IsDict(args[1])) =>
        /\ FixedShape(ret)
        /\ \A s \in SectionSet : AllNull(Get(ret, s))

\* C3: a section that is absent or not a mapping is treated as an empty
\* mapping: canonicalize_report does not raise and the output section has
\* every canonical key set to null.
C3_NonMappingSectionTreatedAsEmpty ==
    (Canonicalized /\ IsDict(args[1])) =>
        \A s \in SectionSet :
            (~Has(args[1], s) \/ ~IsDict(Get(args[1], s))) =>
                /\ FixedShape(ret)
                /\ AllNull(Get(ret, s))

\* The canonicalized value of field f of section s of a raw report.
CanonValue(raw, s, f) ==
    LET c == canonicalize_report(raw)
    IN IF IsDict(c) /\ Has(c, s) THEN Get(Get(c, s), f) ELSE None

RowsOf(s, f) == {i \in 1..Len(ret.rows) : ret.rows[i].section = s /\ ret.rows[i].field = f}

\* C4: for every (section, field), with vp and vs the canonicalized primary
\* and secondary values, the provenance record chooses vp with source yahoo
\* (primary) when vp is non-null, else vs with source pdf (secondary) when vs
\* is non-null, else null with source missing; and the final report's value of
\* the field is the chosen value of the record.
C4_PrimaryWinsPrecedence ==
    MergeReturned =>
        \A s \in SectionSet : \A f \in FieldSet(s) :
            LET vp == CanonValue(args[1], s, f)
                vs == CanonValue(args[2], s, f)
            IN /\ RowsOf(s, f) # {}
               /\ \A i \in RowsOf(s, f) :
                     /\ ret.rows[i].yahoo = vp
                     /\ ret.rows[i].pdf = vs
                     /\ vp # None =>
                           ret.rows[i].chosen = vp /\ ret.rows[i].source = "yahoo"
                     /\ (vp = None /\ vs # None) =>
                           ret.rows[i].chosen = vs /\ ret.rows[i].source = "pdf"
                     /\ (vp = None /\ vs = None) =>
                           ret.rows[i].chosen = None /\ ret.rows[i].source = "missing"
                     /\ Get(Get(ret.final, s), f) = ret.rows[i].chosen

\* The primary supplies 0, the secondary a non-zero value: 0 is chosen.
C4_Witness ==
    /\ MergeReturned
    /\ CanonValue(args[1], "income_statement", "revenue") = Int2Num(0)
    /\ CanonValue(args[2], "income_statement", "revenue") = Int2Num(1)
    /\ Get(Get(ret.final, "income_statement"), "revenue") = Int2Num(0)
    /\ \E i \in RowsOf("income_statement", "revenue") : ret.rows[i].source = "yahoo"

\* The (section, field) pairs of the schema, sections in the fixed order and
\* fields in the schema's order.
SchemaOrder ==
    [j \in 1..6 |-> <<"income_statement", CANON["income_statement"][j]>>]
    \o [j \in 1..4 |-> <<"balance_sheet", CANON["balance_sheet"][j]>>]
    \o [j \in 1..4 |-> <<"cash_flow", CANON["cash_flow"][j]>>]
    \o [j \in 1..9 |-> <<"derived", CANON["derived"][j]>>]

SourceOf(s, f) == ret.rows[CHOOSE i \in RowsOf(s, f) : TRUE].source

\* C6: reconciling the scenario's primary {income_statement: {"TotalRevenue":
\* "1,000"}, ...} with its secondary {income_statement: {"net_income": "100"}}
\* yields revenue 1000.0 from the primary, net_income 100.0 from the secondary
\* and the other four income fields null.
C6_EndToEndScenario ==
    (Merged /\ args = <<ScenarioPrimary, ScenarioSecondary>>) =>
        /\ ret.t = "tuple"
        /\ Get(ret.final, "income_statement") =
              Dict(<<Entry("revenue", Int2Num(1000)),
                     Entry("gross_profit", None),
                     Entry("operating_income", None),
                     Entry("net_income", Int2Num(100)),
                     Entry("eps_basic", None),
                     Entry("eps_diluted", None)>>)
        /\ SourceOf("income_statement", "revenue") = "yahoo"
        /\ SourceOf("income_statement", "net_income") = "pdf"

\* Canonicalizing and merging the raw report cannot raise: it is not a
\* mapping, or its sections, metadata and units are mappings, absent or falsy.
WellFormed(raw) ==
    IsDict(raw) =>
        /\ \A k \in SectionSet \cup {"metadata", "units"} :
              IsDict(Or(Get(raw, k), EmptyDict))
        /\ ValuesInFloatRange(raw)

Sources == {ret.rows[i].source : i \in 1..Len(ret.rows)}

ScaleOf(raw) == Get(RawPart(raw, "units"), "scale")
CurrencyOf(raw) == Get(RawPart(raw, "units"), "currency")
FinalUnits == Get(ret.final, "units")

\* C8: the reconciled units.scale is the primary's scale if that is non-null
\* and not the unset default 1, otherwise the secondary's scale, and 1 when
\* neither source supplies one; it is never null.
C8_ScaleSkipsUnsetDefault ==
    MergeReturned =>
        LET sy == ScaleOf(args[1])
            sp == ScaleOf(args[2])
        IN /\ Get(FinalUnits, "scale") # None
           /\ Get(FinalUnits, "scale") =
                 (IF sy # None /\ sy # Int2Num(1) THEN sy
                  ELSE IF sp # None THEN sp
                  ELSE Int2Num(1))

\* C9 as claimed: the reconciled units.currency is the primary's currency
\* whenever that is non-null (the empty string included), else the secondary's.
C9_CurrencyPrimaryIfNonNull ==
    MergeReturned =>
        Get(FinalUnits, "currency") =
            (IF CurrencyOf(args[1]) # None THEN CurrencyOf(args[1])
             ELSE CurrencyOf(args[2]))

\* C9 as amended: the reconciled units.currency is the primary's currency
\* whenever that is truthy (non-null and not the empty string), and otherwise
\* the secondary's currency (null when the secondary has none).
C9_CurrencyPrimaryIfTruthy ==
    MergeReturned =>
        Get(FinalUnits, "currency") =
            (IF Truthy(CurrencyOf(args[1])) THEN CurrencyOf(args[1])
             ELSE CurrencyOf(args[2]))

\* The primary's currency is the empty string, the secondary's wins.
C9_Witness ==
    /\ MergeReturned
    /\ CurrencyOf(args[1]) = Str("")
    /\ CurrencyOf(args[2]) = Str("AUD")
    /\ Get(FinalUnits, "currency") = Str("AUD")

\* C10: the reconciled metadata is the shallow merge of both sources'
\* metadata: every key of the primary's metadata carries the primary's value
\* (even null), every key only in the secondary's carries the secondary's
\* value, and no other key appears.
C10_MetadataShallowMerge ==
    MergeReturned =>
        LET ym == RawPart(args[1], "metadata")
            pm == RawPart(args[2], "metadata")
            m == Get(ret.final, "metadata")
        IN /\ Keys(m) = Keys(ym) \cup Keys(pm)
           /\ Len(m.e) = Cardinality(Keys(m))
           /\ \A k \in Keys(ym) : Get(m, k) = Get(ym, k)
           /\ \A k \in Keys(pm) \ Keys(ym) : Get(m, k) = Get(pm, k)

\* The primary's ticker is null and overrides the secondary's ticker.
C10_Witness ==
    /\ MergeReturned
    /\ Get(RawPart(args[1], "metadata"), "ticker") = None
    /\ Has(RawPart(args[1], "metadata"), "ticker")
    /\ Get(RawPart(args[2], "metadata"), "ticker") = Str("B")
    /\ Keys(Get(ret.final, "metadata")) = {"ticker", "as_of", "source"}
    /\ Get(Get(ret.final, "metadata"), "ticker") = None

KeyCanonicalized == pc = "done" /\ op = "_canon_key"

\* C11: the synonym table is total and unambiguous: every raw spelling that
\* has an entry in the synonym table is mapped by _canon_key to a key of the
\* canonical schema.
C11_SynonymsReachCanonicalKeys ==
    (KeyCanonicalized /\ args[1].s \in DOMAIN SYNONYMS) => ret.s \in CanonicalFields

\* C12 as claimed: _canon_key lower-cases the key, replaces spaces with
\* underscores and applies the synonym table, returning the lower/underscored
\* form unchanged when there is no synonym entry.
C12_LowerUnderscoreSynonym ==
    KeyCanonicalized =>
        LET k0 == Replace(Lower(args[1].s), " ", "_")
        IN ret.s = (IF k0 \in DOMAIN SYNONYMS THEN SYNONYMS[k0] ELSE k0)

\* C12 as amended: _canon_key strips surrounding whitespace, lower-cases the
\* key, replaces spaces with underscores, rewrites total_liilities to
\* total_liabilities and then applies the synonym table, returning the form
\* unchanged when there is no synonym entry: "Total Revenue" maps to revenue,
\* "EBIT" to operating_income, "ROE" to return_on_equity, "fcf" to free_cf,
\* and every canonical key maps to itself.
C12_StripLowerUnderscoreSynonym ==
    KeyCanonicalized =>
        LET k0 == Replace(Lower(Strip(args[1].s)), " ", "_")
            k1 == IF k0 = "total_liilities" THEN "total_liabilities" ELSE k0
        IN /\ ret.s = (IF k1 \in DOMAIN SYNONYMS THEN SYNONYMS[k1] ELSE k1)
           /\ args[1].s = "Total Revenue" => ret.s = "revenue"
           /\ args[1].s = "EBIT" => ret.s = "operating_income"
           /\ args[1].s = "ROE" => ret.s = "return_on_equity"
           /\ args[1].s = "fcf" => ret.s = "free_cf"
           /\ args[1].s \in CanonicalFields => ret.s = args[1].s

\* A key with surrounding whitespace and capitals reaches its canonical field.
C12_Witness ==
    /\ KeyCanonicalized
    /\ args[1].s = " FCF "
    /\ ret.s = "free_cf"

\* ------------------------------------------------------------ _to_num
Coerced == pc = "done" /\ op = "_to_num"

\* C13: _to_num applies its rules in order.  Null gives null; NaN and the
\* infinities give null and any other number gives the same number; a string
\* is trimmed and "", nan, none, null, the em dash and - (in any case) give
\* null; a string ending in % gives the number parsed from the rest, with its
\* commas left in place, divided by 100; any other string is parsed with its
\* commas removed.  "1,234.50" gives 1234.50, "12.5%" gives 0.125, "N/A"
\* gives null, and "1,0%" gives null because the comma stays.
C13_CoercionRulesInOrder ==
    Coerced =>
        LET x == args[1] IN
        /\ x = None => ret = None
        /\ x.t \in {"nan", "inf"} => ret = None
        /\ x.t = "num" => ret = x
        /\ x.t = "str" =>
              LET s == Strip(x.s) IN
              IF s = "" \/ Lower(s) \in {"nan", "none", "null", EmDash, "-"}
              THEN ret = None
              ELSE IF Last(s) = "%"
              THEN (LET v == ParseFloat(ButLast(s))
                    IN IF v.t = "num" THEN ret = Num(v.n, 100 * v.d)
                       ELSE IF IsRaise(v) THEN ret = None ELSE ret = v)
              ELSE (LET v == ParseFloat(Replace(s, ",", ""))
                    IN IF v.t = "num" THEN ret = v ELSE ret = None)
        /\ x = Str("1,234.50") => ret = Num(2469, 2)
        /\ x = Str("12.5%") => ret = Num(1, 8)
        /\ x = Str("N/A") => ret = None
        /\ x = Str(EmDash) => ret = None
        /\ x = Str("1,0%") => ret = None
        /\ x = Str("1,000") => ret = Int2Num(1000)

C13_Witness ==
    /\ Coerced
    /\ args[1] = Str("1,0%")
    /\ ret = None

\* C14: _to_num is total: for every input it returns a number or null and
\* raises nothing.
C14_CoercionIsTotal ==
    Coerced => ret.t \in {"none", "num", "nan", "inf"}

\* ------------------------------------------------------------ safe_div
Divided == pc = "done" /\ op = "safe_div"

\* C15: safe_div(a, b) is null when a is null, when b is null and when b is
\* zero; for every other pair of finite numbers it is the quotient a/b, so a
\* zero numerator gives 0, not null; and it raises nothing, whatever the
\* operands.  safe_div(10, 0) and safe_div(None, 5) are null, safe_div(10, 2)
\* is 5.
C15_SafeDivNullOrQuotient ==
    Divided =>
        LET a == args[1]
            b == args[2]
        IN /\ ~IsRaise(ret)
           /\ (a = None \/ b = None \/ b = Int2Num(0)) => ret = None
           /\ (a.t = "num" /\ b.t = "num" /\ b.n # 0) =>
                 /\ ret.t = "num"
                 /\ ret.n * b.n * a.d = a.n * b.d * ret.d
           /\ (a = Int2Num(10) /\ b = Int2Num(2)) => ret = Int2Num(5)
           /\ (a = Int2Num(0) /\ b = Int2Num(5)) => ret = Int2Num(0)

C15_Witness ==
    /\ Divided
    /\ args = <<Int2Num(0), Int2Num(5)>>
    /\ ret = Int2Num(0)

\* ---------------------------------------------------------- add_derived
AddDerivedDone == pc = "done" /\ op = "add_derived"

\* The report holds the three statement sections, each a mapping.
HasStatements(report) ==
    /\ IsDict(report)
    /\ \A k \in Statements : Has(report, k) /\ IsDict(Get(report, k))

\* The field of the report passed in, and the ratio of the report returned.
Field(section, field) == Get(Get(args[1], section), field)
Ratio(field) == Get(Get(ret, "derived"), field)

\* r is null when the numerator is null or the denominator null or zero, and
\* the number num/den otherwise.
IsQuotient(r, num, den) ==
    IF num = None \/ den = None \/ den = Int2Num(0)
    THEN r = None
    ELSE r.t = "num" /\ r.n * den.n * num.d = num.n * den.d * r.d

\* C16: for a report with the three statement sections, add_derived returns
\* with profit_margin = net_income / revenue, gross_margin = gross_profit /
\* revenue, operating_margin = operating_income / revenue, return_on_equity =
\* net_income / total_equity, asset_turnover = revenue / total_assets,
\* debt_to_equity = total_liabilities / total_equity and
\* free_cash_flow_margin = free_cf / revenue, each null exactly when its
\* numerator is null or its denominator null or zero; the derived mapping has
\* exactly the nine canonical derived keys.  net_income 50, revenue 200 and
\* total_equity 250 give profit_margin 0.25 and return_on_equity 0.2.
C16_DerivedRatios ==
    (AddDerivedDone /\ HasStatements(args[1])) =>
        /\ ~IsRaise(ret)
        /\ IsQuotient(Ratio("profit_margin"), Field("income_statement", "net_income"),
                      Field("income_statement", "revenue"))
        /\ IsQuotient(Ratio("gross_margin"), Field("income_statement", "gross_profit"),
                      Field("income_statement", "revenue"))
        /\ IsQuotient(Ratio("operating_margin"), Field("income_statement", "operating_income"),
                      Field("income_statement", "revenue"))
        /\ IsQuotient(Ratio("return_on_equity"), Field("income_statement", "net_income"),
                      Field("balance_sheet", "total_equity"))
        /\ IsQuotient(Ratio("asset_turnover"), Field("income_statement", "revenue"),
                      Field("balance_sheet", "total_assets"))
        /\ IsQuotient(Ratio("debt_to_equity"), Field("balance_sheet", "total_liabilities"),
                      Field("balance_sheet", "total_equity"))
        /\ IsQuotient(Ratio("free_cash_flow_margin"), Get(Get(ret, "cash_flow"), "free_cf"),
                      Field("income_statement", "revenue"))
        /\ Keys(Get(ret, "derived")) = FieldSet("derived")
        /\ Len(Get(ret, "derived").e) = Len(CANON["derived"])
        /\ args[1] = ExampleReport =>
              /\ Ratio("profit_margin") = Num(1, 4)
              /\ Ratio("return_on_equity") = Num(1, 5)

C16_Witness ==
    /\ AddDerivedDone
    /\ args[1] = ExampleReport
    /\ Ratio("profit_margin") = Num(1, 4)
    /\ Ratio("return_on_equity") = Num(1, 5)
    /\ Ratio("gross_margin") = None

\* C17: add_derived backfills free_cf with the signed sum operating_cf +
\* investing_cf exactly when free_cf is null and both addends are non-null; a
\* non-null free_cf (0 included) is kept, free_cf stays null when an addend is
\* null, the other cash-flow fields are kept, and free_cash_flow_margin is
\* free_cf after the backfill over revenue.
C17_FreeCashFlowBackfill ==
    (AddDerivedDone /\ HasStatements(args[1])) =>
        LET free == Field("cash_flow", "free_cf")
            operating == Field("cash_flow", "operating_cf")
            investing == Field("cash_flow", "investing_cf")
            cf == Get(ret, "cash_flow")
        IN /\ ~IsRaise(ret)
           /\ (free = None /\ operating # None /\ investing # None) =>
                 Get(cf, "free_cf") = Num(operating.n * investing.d + investing.n * operating.d,
                                          operating.d * investing.d)
           /\ free # None => Get(cf, "free_cf") = free
           /\ (free = None /\ (operating = None \/ investing = None)) =>
                 Get(cf, "free_cf") = None
           /\ \A k \in {"operating_cf", "investing_cf", "financing_cf"} :
                 Get(cf, k) = Field("cash_flow", k)
           /\ IsQuotient(Ratio("free_cash_flow_margin"), Get(cf, "free_cf"),
                         Field("income_statement", "revenue"))

C17_Witness ==
    /\ AddDerivedDone
    /\ HasStatements(args[1])
    /\ Field("cash_flow", "free_cf") = None
    /\ Field("cash_flow", "operating_cf") = Int2Num(MaxInt)
    /\ Field("cash_flow", "investing_cf") = Int2Num(1)
    /\ Field("income_statement", "revenue") = Int2Num(MaxInt)
    /\ Get(Get(ret, "cash_flow"), "free_cf") = Int2Num(MaxInt + 1)
    /\ Ratio("free_cash_flow_margin") = Num(MaxInt + 1, MaxInt)

\* C19: add_derived is idempotent: a second call on the report the first
\* call returned raises nothing and returns the same cash_flow and derived
\* sections.
C19_AddDerivedIdempotent ==
    [][(op = "add_derived" /\ pc = "done" /\ pc' = "twice") =>
          /\ ~IsRaise(ret')
          /\ Get(ret', "cash_flow") = Get(ret, "cash_flow")
          /\ Get(ret', "derived") = Get(ret, "derived")]_vars

C19_Witness ==
    /\ op = "add_derived"
    /\ pc = "twice"
    /\ HasStatements(args[1])
    /\ Field("cash_flow", "free_cf") = None
    /\ Get(Get(ret, "cash_flow"), "free_cf") = Int2Num(MaxInt + 1)
    /\ Ratio("free_cash_flow_margin") = Num(MaxInt + 1, MaxInt)

\* C20: add_derived never mutates its input: after the call the report
\* passed in holds the keys and values it held before.
C20_AddDerivedKeepsInput ==
    AddDerivedDone => after = args

\* ----------------------------------------------------------- P/E ratios
YahooBuilt == pc = "done" /\ op = "build_report_from_yfinance"

\* The market price of the Yahoo data: the last Close when there is a
\* history, else currentPrice when it is set and not zero, else last_price.
MarketPrice(y) ==
    IF y.close # None THEN y.close
    ELSE IF Get(y.info, "currentPrice") \notin {None, Int2Num(0)}
         THEN Get(y.info, "currentPrice")
    ELSE Get(y.fast, "last_price")

\* C18: in every derived mapping the program computes, pe_ratio_basic equals
\* pe_ratio_diluted.  add_derived has no price, so both are null;
\* build_report_from_yfinance sets both to price / eps_basic when there is a
\* market price and eps_basic (trailingEps) is neither null nor zero, and to
\* null otherwise.
C18_PeRatiosAgree ==
    /\ (AddDerivedDone /\ HasStatements(args[1])) =>
          /\ Ratio("pe_ratio_basic") = None
          /\ Ratio("pe_ratio_diluted") = None
    /\ YahooBuilt =>
          /\ IsDict(ret)
          /\ Ratio("pe_ratio_basic") = Ratio("pe_ratio_diluted")
          /\ IsQuotient(Ratio("pe_ratio_basic"), MarketPrice(args[2]),
                        Get(args[2].info, "trailingEps"))

C18_Witness ==
    /\ YahooBuilt
    /\ args[2].close = None
    /\ Get(args[2].info, "currentPrice") = Int2Num(0)
    /\ Get(args[2].fast, "last_price") = Int2Num(1)
    /\ Get(args[2].info, "trailingEps") = Int2Num(MaxInt)
    /\ Ratio("pe_ratio_basic") = Num(1, MaxInt)
    /\ Ratio("pe_ratio_diluted") = Num(1, MaxInt)

\* --------------------------------------------------- has_missing_fields
Checked == pc = "done" /\ op = "has_missing_fields"

\* Every section of the report is a mapping, or absent, null or empty.
SectionsMappingsOrEmpty(report) ==
    IsDict(report) =>
        \A s \in SectionSet : ~Truthy(Get(report, s)) \/ IsDict(Get(report, s))

\* C21: has_missing_fields(report) is true if and only if the report is no
\* mapping, or one of the four sections is absent or empty, or a value of
\* one of the four sections is null (for reports whose sections are
\* mappings, absent or empty).  For a report of the fixed shape, as
\* canonicalize_report returns it, it is true exactly when a canonical field
\* is null; a field equal to 0 does not count as missing.
C21_MissingIffEmptyOrNull ==
    (Checked /\ SectionsMappingsOrEmpty(args[1])) =>
        LET r == args[1] IN
        /\ ret = Bool(\/ ~IsDict(r)
                      \/ \E s \in SectionSet :
                            \/ ~Has(r, s)
                            \/ ~Truthy(Get(r, s))
                            \/ \E k \in Keys(Get(r, s)) : Get(Get(r, s), k) = None)
        /\ (IsDict(r) /\ FixedShape(r)) =>
              ret = Bool(\E s \in SectionSet : \E f \in FieldSet(s) :
                            Get(Get(r, s), f) = None)

C21_Witness ==
    /\ Checked
    /\ args[1] = canonicalize_report(CompleteReport)
    /\ Get(Get(args[1], "income_statement"), "revenue") = Int2Num(0)
    /\ ret = Bool(FALSE)

\* ------------------------------------------------------- frame conditions
\* C22: canonicalize_report and merge_reports_with_provenance never mutate
\* their arguments: after either call every raw report passed in holds the
\* keys and values it held before, and no section mapping of the result is
\* an object of an argument.
C22_ArgumentsIntact ==
    (Canonicalized \/ Merged) =>
        /\ after = args
        /\ shared \cap (SectionSet \cup {"report"}) = {}

C22_Witness ==
    /\ Canonicalized
    /\ args[1] = canonicalize_report(CompleteReport)
    /\ ret = args[1]
    /\ after = args
    /\ shared = {"metadata", "units"}

\* C23: canonicalize_report is idempotent: for a raw report that is a
\* mapping, canonicalizing the canonicalized report returns the same report.
C23_CanonicalizeIdempotent ==
    (op = "canonicalize_report" /\ pc = "twice") => ret = canonicalize_report(args[1])

\* ------------------------------------------------------- duplicate keys
\* The last entry of the raw section whose key canonicalizes to f.
LastFor(sec, f) ==
    LET I == {i \in 1..Len(sec.e) : canon_key(sec.e[i].k) = f}
    IN CHOOSE i \in I : \A j \in I : j <= i

\* C29: when keys of one raw section canonicalize to the same canonical
\* field, the canonicalized field is the coerced value of the key that comes
\* last in the section's iteration order, even when that value is null and an
\* earlier key supplied a non-null value.
C29_LastDuplicateWins ==
    (Canonicalized /\ IsDict(args[1]) /\ ~IsRaise(ret)) =>
        \A s \in SectionSet :
            LET sec == RawSection(args[1], s)
            IN IsDict(sec) =>
                \A f \in FieldSet(s) :
                    (\E i \in 1..Len(sec.e) : canon_key(sec.e[i].k) = f) =>
                        Get(Get(ret, s), f) = to_num(sec.e[LastFor(sec, f)].v)

C29_Witness ==
    /\ Canonicalized
    /\ args[1] = Dict(<<Entry("income_statement",
                             Dict(<<Entry("revenue", Int2Num(MaxInt)),
                                    Entry("sales", None)>>))>>)
    /\ Get(Get(ret, "income_statement"), "revenue") = None

\* ------------------------------------------------------- finite values
\* C30: _to_num never returns NaN or an infinite value, so every non-null
\* value in a section of a canonicalized report is a finite number.
C30_CoercedValuesFinite ==
    /\ (Coerced /\ ~IsRaise(ret)) => ret.t \in {"none", "num"}
    /\ (Canonicalized /\ IsDict(args[1]) /\ IsDict(ret)) =>
            \A s \in SectionSet : \A i \in 1..Len(Get(ret, s).e) :
                Get(ret, s).e[i].v.t \in {"none", "num"}

\* ------------------------------------------------------------ chunk_text
Chunked == pc = "done" /\ op = "chunk_text"

\* The tagged pages i of the page list whose group is j, concatenated in order.
RECURSIVE JoinGroup(_, _, _, _)
JoinGroup(pages, g, j, i) ==
    IF i > Len(pages) THEN ""
    ELSE (IF g[i] = j THEN Tag(i) \o pages[i] ELSE "") \o JoinGroup(pages, g, j, i + 1)

\* g assigns the pages, in order, to the chunks: the first page to the first
\* chunk, every next page to the same chunk or the next one, the last page to
\* the last chunk.
InOrder(g, n, m) ==
    /\ (n = 0) = (m = 0)
    /\ n > 0 => g[1] = 1 /\ g[n] = m
    /\ \A i \in 1..(n - 1) : g[i + 1] \in {g[i], g[i] + 1}

\* C28: chunk_text partitions the pages in order: every page is, with its
\* tag, in exactly one chunk, and each chunk is the concatenation of the
\* tagged pages it holds; no chunk is empty; there are no chunks exactly when
\* there are no pages; a chunk that holds two or more pages is at most
\* max_chars long.
C28_ChunksPartitionPages ==
    Chunked =>
        LET pages == args[1]
            n == Len(pages)
            m == Len(ret)
        IN /\ (m = 0) = (n = 0)
           /\ \A j \in 1..m : ret[j] # ""
           /\ \E g \in [1..n -> 1..m] :
                /\ InOrder(g, n, m)
                /\ \A j \in 1..m :
                    /\ ret[j] = JoinGroup(pages, g, j, 1)
                    /\ Cardinality({i \in 1..n : g[i] = j}) >= 2
                            => Len(ret[j]) <= args[2]

\* Two pages that do not fit together: the second chunk holds one page and
\* is longer than max_chars.
C28_Witness ==
    /\ Chunked
    /\ args = <<(<<"a", "ab">>), 12>>
    /\ ret = <<Tag(1) \o "a", Tag(2) \o "ab">>
    /\ Len(ret[2]) > args[2]

\* -------------------------------------------------------------------- run
Running == op = "run"
RunDone == op = "run" /\ pc = "done"

\* The entries of the log for chunk c, and the accumulated report before the
\* k-th call of the LLM.
EntriesOf(c) == {k \in 1..Len(log) : log[k].i = c}
Before(k) == IF k = 1 THEN RunReport ELSE log[k - 1].merged

\* C25: in run() the LLM is called at most MAX_JSON_RETRIES + 1 = 3 times
\* for a chunk; an attempt after the first follows a JSON decode error or a
\* schema validation error of the attempt before; the part of a chunk is
\* merged at most once, by the attempt whose reply parses and validates, and
\* that attempt is the chunk's last; an attempt that merges nothing leaves
\* the accumulated report unchanged; the chunks are processed in order and
\* every chunk is attempted, whatever happened to the chunk before.
C25_AtMostThreeAttempts ==
    Running =>
        /\ MAX_JSON_RETRIES + 1 = 3
        /\ \A c \in 1..Len(args[1]) :
              /\ Cardinality(EntriesOf(c)) <= 3
              /\ Cardinality({k \in EntriesOf(c) : log[k].outcome = "merged"}) <= 1
              /\ pc = "done" => EntriesOf(c) # {}
        /\ \A k \in 1..Len(log) :
              /\ log[k].i \in 1..Len(args[1])
              /\ log[k].attempt > 0 =>
                    /\ k > 1
                    /\ log[k - 1].i = log[k].i
                    /\ log[k - 1].attempt = log[k].attempt - 1
                    /\ Invalid(log[k - 1].outcome)
              /\ log[k].attempt = 0 =>
                    log[k].i = IF k = 1 THEN 1 ELSE log[k - 1].i + 1
              /\ log[k].outcome = "merged" =>
                    /\ Valid(log[k].part)
                    /\ log[k].merged = merge_reports(Before(k), log[k].part)
                    /\ \A k2 \in (k + 1)..Len(log) : log[k2].i # log[k].i
              /\ log[k].outcome # "merged" => log[k].merged = Before(k)

\* Three invalid replies for the first chunk, then the second chunk is merged.
C25_Witness ==
    /\ RunDone
    /\ Len(args[1]) = 2
    /\ Len(log) = 4
    /\ \A k \in 1..3 : log[k].i = 1 /\ Invalid(log[k].outcome)
    /\ log[4].i = 2 /\ log[4].outcome = "merged"
    /\ log[4].part = PartWithRatio
    /\ Get(Get(frame.merged, "income_statement"), "revenue") = Int2Num(MaxInt)

\* C26: over the merge_reports calls of one run, a statement or derived field
\* that is non-null in the accumulated report is never changed by a later
\* chunk (0 is non-null), a null field takes the value the chunk supplies,
\* units.scale is replaced exactly when it is null or 1 and the chunk's scale
\* is neither, and the base report is left as it was.
C26_FirstNonNullWins ==
    Running =>
        \A k \in 1..Len(log) : log[k].outcome = "merged" =>
            LET base == Before(k)
                inc == log[k].part
                out == log[k].merged
                bs == Get(Get(base, "units"), "scale")
                is == Get(GetDefault(inc, "units", EmptyDict), "scale")
            IN /\ \A s \in SectionSet : \A f \in FieldSet(s) :
                    /\ Get(Get(out, s), f) =
                          IF Get(Get(base, s), f) # None THEN Get(Get(base, s), f)
                          ELSE Get(GetDefault(inc, s, EmptyDict), f)
                    /\ Get(Get(out, s), f) # None =>
                          \A k2 \in (k + 1)..Len(log) :
                              Get(Get(log[k2].merged, s), f) = Get(Get(out, s), f)
               /\ Get(Get(out, "units"), "scale") =
                     IF bs \in {None, Int2Num(1)} /\ is \notin {None, Int2Num(1)}
                     THEN is ELSE bs
               /\ log[k].base = base

\* A revenue of 0 from the first chunk survives the second chunk, which
\* fills the null ratio and replaces the scale of 1.
C26_Witness ==
    /\ RunDone
    /\ Len(log) = 2
    /\ log[1].part = PartZeroRevenue /\ log[1].outcome = "merged"
    /\ log[2].part = PartWithRatio /\ log[2].outcome = "merged"
    /\ Get(Get(log[2].merged, "income_statement"), "revenue") = Int2Num(0)
    /\ Get(Get(log[2].merged, "derived"), "pe_ratio_basic") = Int2Num(MaxInt)
    /\ Get(Get(log[2].merged, "units"), "scale") = Int2Num(1000)

\* C27: a non-null derived ratio that merge_reports filled into the
\* accumulated report from the part of some chunk is, with that value, in the
\* report run() returns.
C27_ExtractedRatioReturned ==
    RunDone =>
        \A k \in 1..Len(log) : log[k].outcome = "merged" =>
            \A f \in FieldSet("derived") :
                Get(Get(log[k].merged, "derived"), f) # None =>
                    Get(Get(ret, "derived"), f) = Get(Get(log[k].merged, "derived"), f)

\* ---------------------------------------------------------- Analyze action
Analyzing == op = "analyze"
FetchEntries == {k \in 1..Len(log) : log[k].step = "yahoo"}

\* The fetch returned a report whose canonical form has no missing field.
Complete(result) ==
    /\ ~IsRaise(result)
    /\ has_missing_fields(canonicalize_report(result)) = Bool(FALSE)

\* C24: in one Analyze action the Yahoo fetch is made once at most and
\* before any document analysis that fills gaps; after the fetch the
\* document analyzer is called exactly when a PDF was uploaded and the fetch
\* failed or the canonicalized Yahoo report has a missing field; when the
\* Yahoo report is complete every row of the provenance of the stored report
\* has source yahoo.
C24_PrimaryFirstThenGaps ==
    Analyzing =>
        /\ Cardinality(FetchEntries) <= 1
        /\ \A k \in 1..Len(log) :
              log[k].step = "gaps" => \E j \in 1..(k - 1) : log[j].step = "yahoo"
        /\ pc \in {"merge", "done"} =>
              \A j \in FetchEntries :
                  (\E k \in (j + 1)..Len(log) : log[k].call = "analyze_pdf")
                      <=> (args[1].uploaded_pdf /\ ~Complete(log[j].result))
        /\ (pc = "done" /\ ret.t = "tuple") =>
              /\ FetchEntries # {}
              /\ \A j \in FetchEntries : Complete(log[j].result) =>
                    /\ Len(ret.rows) > 0
                    /\ \A n \in 1..Len(ret.rows) : ret.rows[n].source = "yahoo"

\* An incomplete Yahoo report and an uploaded PDF: the document is analyzed
\* after the fetch and supplies a value of the stored report.
C24_Witness ==
    /\ Analyzing
    /\ pc = "done"
    /\ ret.t = "tuple"
    /\ args[1].uploaded_pdf
    /\ Len(log) = 2
    /\ log[1].step = "yahoo" /\ ~IsRaise(log[1].result) /\ ~Complete(log[1].result)
    /\ log[2].step = "gaps"
    /\ \E n \in 1..Len(ret.rows) : ret.rows[n].source = "pdf"
====
